---- MODULE Spec2Model ----
(***************************************************************************)
(* Credit reservation / refund ledger of cliplingua and the request        *)
(* handlers built on it.  The module holds several specifications over one *)
(* set of variables; each specification drives one group of variables and  *)
(* pins the others:                                                        *)
(*   Spec        the SQL functions reserve_credits / refund_credits        *)
(*   SpecDb      the same with direct updates of a profiles row            *)
(*   SpecRows    reserve_credits over two profiles rows                    *)
(*   SpecSaga    the single-request submit and dub handlers                *)
(*   SpecBilling the three billing verify handlers                         *)
(*   SpecBulk    the bulk endpoints: rate limit, upfront charge, the       *)
(*               sequential loop and the worker-loop pool                  *)
(*   SpecRate    the rate limiter alone, as the clock moves                *)
(*   SpecUsage   the usage readers next to writes of the usage row         *)
(*   SpecKeys    API-key authentication and revocation                     *)
(*   SpecDub     the API-key bulk dub handler                              *)
(*   SpecArtifact one submit followed by status and artifact reads         *)
(*   SpecAmounts the two SQL functions called with any integer amount      *)
(***************************************************************************)
EXTENDS Integers, Sequences, FiniteSets, TLC

\* ---- ledger (supabase SQL: profiles.credits) ----
VARIABLES credits, lpc, lop, lamt, luid, lremaining, lresult, lcalls,
          startCredits, sumReserved, sumRefunded, hist

ledgerVars == <<credits, lpc, lop, lamt, luid, lremaining, lresult, lcalls,
                startCredits, sumReserved, sumRefunded, hist>>

\* ---- single-request handlers (submit, status-route submit, dub) ----
VARIABLES orgCredits, fnMissing, jobs, spc, skind, sreserved, sjobid, sresp,
          sworker, sdebit, srefundCalls, srefunded

sagaVars == <<orgCredits, fnMissing, jobs, spc, skind, sreserved, sjobid, sresp,
              sworker, sdebit, srefundCalls, srefunded>>

ledgerLocals == <<lpc, lop, lamt, luid, lremaining, lresult, lcalls,
                  startCredits, sumReserved, sumRefunded, hist>>

\* ---- billing verify ----
VARIABLES ostatus, okind, odelta, seats, seats0, apiEnabled, vpc, vin, vseen,
          vresp, vupd, vappliedBy, varrival, vapplyCalls

billingVars == <<ostatus, okind, odelta, seats, seats0, apiEnabled, vpc, vin, vseen,
                 vresp, vupd, vappliedBy, varrival, vapplyCalls>>

\* ---- bulk submission (organization balance is orgCredits) ----
VARIABLES rl, now, bpc, bin, bpool, bresp, bidx, bitems, wpc, witem, bcharged,
          bfailed, breserveCalls, brefund, blim, bcredits0

bulkVars == <<rl, now, bpc, bin, bpool, bresp, bidx, bitems, wpc, witem, bcharged,
              bfailed, breserveCalls, brefund, blim, bcredits0>>

sagaLocals == <<fnMissing, jobs, spc, skind, sreserved, sjobid, sresp, sworker,
                sdebit, srefundCalls, srefunded>>

\* ---- read side: the usage projection ----
VARIABLES uread

\* ---- API keys: org_api_keys and the request that presents a token ----
VARIABLES keys, kreq

\* ---- which reservation and refund RPC each single request has used ----
VARIABLES svia

\* ---- the answer of the artifact handler for each request's worker job ----
VARIABLES aget

extraVars == <<uread, keys, kreq, svia, aget>>

\* what the bulk handlers never touch
otherVars == <<ledgerVars, sagaLocals, billingVars, extraVars>>

vars == <<ledgerVars, sagaVars, billingVars, bulkVars, extraVars>>

\* ---------------------------------------------------------------------
\* Bounds of the model
\* ---------------------------------------------------------------------
MaxCalls == 3
MaxBalance == 2
MaxAmount == 2

\* ---------------------------------------------------------------------
\* Ledger: public.profiles, reserve_credits(amount), refund_credits(amount)
\* ---------------------------------------------------------------------
NULL == "null"
\* SQL NULL of an integer variable is the empty sequence, a value v is <<v>>.
SqlNull == <<>>

\* u1 has a profile row; u2 is an authenticated identity that has none; u3
\* has a row only in the specification with two rows.
Accounts == {"u1", "u2", "u3"}
\* Two connections, so that two calls can be in flight at once.
Sessions == {"s1", "s2"}
Amounts == 1..MaxAmount

\* mutant: the UPDATE without its "and credits >= amount" condition
reserve_credits_unguarded(tbl, uid, amount) ==
    IF uid \in DOMAIN tbl THEN <<tbl[uid] - amount>> ELSE SqlNull

\* update public.profiles set credits = credits - amount
\*   where id = uid and credits >= amount returning credits into remaining
\* The value is the new credits of the row, or NULL when no row matched.
reserve_credits_update(tbl, uid, amount) ==
    IF uid \in DOMAIN tbl /\ tbl[uid] >= amount
      THEN <<tbl[uid] - amount>> ELSE SqlNull

\* mutant: the refund adds one credit whatever the amount
refund_credits_one(tbl, uid, amount) ==
    IF uid \in DOMAIN tbl THEN <<tbl[uid] + 1>> ELSE SqlNull

\* update public.profiles set credits = credits + amount
\*   where id = uid returning credits into remaining
refund_credits_update(tbl, uid, amount) ==
    IF uid \in DOMAIN tbl THEN <<tbl[uid] + amount>> ELSE SqlNull

\* The last two UPDATE statements that changed a row, newest last.
Push2(h, e) == IF Len(h) < 2 THEN Append(h, e) ELSE <<h[2], e>>

LedgerIdle ==
    /\ lpc = [s \in Sessions |-> "idle"]
    /\ lop = [s \in Sessions |-> "none"]
    /\ lamt = [s \in Sessions |-> 0]
    /\ luid = [s \in Sessions |-> NULL]
    /\ lremaining = [s \in Sessions |-> SqlNull]
    /\ lresult = [s \in Sessions |-> "none"]
    /\ lcalls = 0
    /\ sumReserved = [a \in Accounts |-> 0]
    /\ sumRefunded = [a \in Accounts |-> 0]
    /\ hist = [a \in Accounts |-> <<>>]

LedgerInit ==
    /\ credits \in [{"u1"} -> 0..MaxBalance]
    /\ startCredits = credits
    /\ LedgerIdle

\* A session (one authenticated or anonymous connection) calls one of the two
\* functions: declare uid := auth.uid(); if uid is null then raise.
LCall(s, op, uid, amount) ==
    /\ lpc[s] = "idle"
    /\ lcalls < MaxCalls
    /\ lcalls' = lcalls + 1
    /\ IF uid = NULL
         THEN /\ lresult' = [lresult EXCEPT ![s] = "not authenticated"]
              /\ UNCHANGED <<lpc, lop, lamt, luid, lremaining>>
         ELSE /\ lresult' = [lresult EXCEPT ![s] = "none"]
              /\ lpc' = [lpc EXCEPT ![s] = "update"]
              /\ lop' = [lop EXCEPT ![s] = op]
              /\ lamt' = [lamt EXCEPT ![s] = amount]
              /\ luid' = [luid EXCEPT ![s] = uid]
              /\ lremaining' = [lremaining EXCEPT ![s] = SqlNull]
    /\ UNCHANGED <<credits, startCredits, sumReserved, sumRefunded, hist, sagaVars, billingVars, bulkVars, extraVars>>

\* The single UPDATE statement of reserve_credits, atomic on the row.
LReserveUpdate(s) ==
    /\ lpc[s] = "update" /\ lop[s] = "reserve"
    /\ LET a == luid[s]
           r == reserve_credits_update(credits, a, lamt[s])
       IN /\ lremaining' = [lremaining EXCEPT ![s] = r]
          /\ IF r # SqlNull
               THEN /\ credits' = [credits EXCEPT ![a] = r[1]]
                    /\ sumReserved' = [sumReserved EXCEPT ![a] = @ + lamt[s]]
                    /\ hist' = [hist EXCEPT ![a] =
                          Push2(@, [op |-> "reserve", amt |-> lamt[s],
                                    before |-> credits[a], after |-> r[1]])]
               ELSE UNCHANGED <<credits, sumReserved, hist>>
    /\ lpc' = [lpc EXCEPT ![s] = "return"]
    /\ UNCHANGED <<lop, lamt, luid, lresult, lcalls, startCredits, sumRefunded, sagaVars, billingVars, bulkVars, extraVars>>

\* The single UPDATE statement of refund_credits, atomic on the row.
LRefundUpdate(s) ==
    /\ lpc[s] = "update" /\ lop[s] = "refund"
    /\ LET a == luid[s]
           r == refund_credits_update(credits, a, lamt[s])
       IN /\ lremaining' = [lremaining EXCEPT ![s] = r]
          /\ IF r # SqlNull
               THEN /\ credits' = [credits EXCEPT ![a] = r[1]]
                    /\ sumRefunded' = [sumRefunded EXCEPT ![a] = @ + lamt[s]]
                    /\ hist' = [hist EXCEPT ![a] =
                          Push2(@, [op |-> "refund", amt |-> lamt[s],
                                    before |-> credits[a], after |-> r[1]])]
               ELSE UNCHANGED <<credits, sumRefunded, hist>>
    /\ lpc' = [lpc EXCEPT ![s] = "return"]
    /\ UNCHANGED <<lop, lamt, luid, lresult, lcalls, startCredits, sumReserved, sagaVars, billingVars, bulkVars, extraVars>>

\* if remaining is null then raise exception ...; return remaining
LReturn(s) ==
    /\ lpc[s] = "return"
    /\ lresult' = [lresult EXCEPT ![s] =
          IF lremaining[s] # SqlNull THEN "ok"
          ELSE IF lop[s] = "reserve" THEN "insufficient credits"
          ELSE "profile missing"]
    /\ lpc' = [lpc EXCEPT ![s] = "idle"]
    /\ lop' = [lop EXCEPT ![s] = "none"]
    /\ lamt' = [lamt EXCEPT ![s] = 0]
    /\ luid' = [luid EXCEPT ![s] = NULL]
    /\ lremaining' = [lremaining EXCEPT ![s] = SqlNull]
    /\ UNCHANGED <<credits, lcalls, startCredits, sumReserved, sumRefunded, hist, sagaVars, billingVars, bulkVars, extraVars>>

\* Who can call: the identities that have a row, one that has none (u2),
\* and a connection without an authenticated identity.
Callers == DOMAIN credits \cup {"u2", NULL}

LedgerNext ==
    \/ \E s \in Sessions, op \in {"reserve", "refund"},
          uid \in Callers, amount \in Amounts :
          LCall(s, op, uid, amount)
    \/ \E s \in Sessions : LReserveUpdate(s)
    \/ \E s \in Sessions : LRefundUpdate(s)
    \/ \E s \in Sessions : LReturn(s)

\* The amount is a plain integer parameter: neither function looks at its
\* sign, so a caller can pass zero and negative values as well.
AllAmounts == (0 - MaxAmount)..MaxAmount

AmountsNext ==
    \/ \E s \in Sessions, op \in {"reserve", "refund"},
          uid \in Callers, amount \in AllAmounts :
          LCall(s, op, uid, amount)
    \/ \E s \in Sessions : LReserveUpdate(s)
    \/ \E s \in Sessions : LRefundUpdate(s)
    \/ \E s \in Sessions : LReturn(s)

\* ---- what row level security lets an authenticated user do directly ----
DirectValues == {-1, MaxBalance + 1}

\* policy "profiles_update_own": for update to authenticated,
\* using (id = auth.uid()) with check (id = auth.uid())
profiles_update_own(uid, row) == uid # NULL /\ row = uid

\* update public.profiles set credits = v where id = row, sent by a session
\* authenticated as uid: the policy keeps the rows the statement may touch
\* (credits is integer not null, without a check constraint).
LDirectUpdate(s, uid, row, v) ==
    /\ lpc[s] = "idle"
    /\ lcalls < MaxCalls
    /\ lcalls' = lcalls + 1
    /\ IF profiles_update_own(uid, row) /\ row \in DOMAIN credits
         THEN /\ credits' = [credits EXCEPT ![row] = v]
              /\ hist' = [hist EXCEPT ![row] =
                    Push2(@, [op |-> "update", amt |-> 0,
                              before |-> credits[row], after |-> v])]
         ELSE UNCHANGED <<credits, hist>>
    /\ UNCHANGED <<lpc, lop, lamt, luid, lremaining, lresult, startCredits,
                   sumReserved, sumRefunded, sagaVars, billingVars, bulkVars, extraVars>>

\* Concurrent reserve_credits calls only (on the table with two rows).
ReserveNext ==
    \/ \E s \in Sessions, uid \in Callers, amount \in Amounts :
          LCall(s, "reserve", uid, amount)
    \/ \E s \in Sessions : LReserveUpdate(s)
    \/ \E s \in Sessions : LReturn(s)

DbNext ==
    \/ LedgerNext
    \/ \E s \in Sessions, uid \in Callers, row \in Accounts,
          v \in DirectValues : LDirectUpdate(s, uid, row, v)

\* ---------------------------------------------------------------------
\* Single-request handlers.  Every await of a handler is one action; the
\* external calls take their outcome from small sets:
\*   the worker fetch: "ok", "reject" (non-2xx or no jobId), "throw"
\*     (AbortError of fetchWithTimeout / AbortSignal.timeout, transport
\*     error; supabase-js calls resolve with {error} and do not throw)
\*   a user_jobs insert/update and a refund RPC: "ok", "err"
\*   a reserve RPC: decided by the balance
\* ---------------------------------------------------------------------
COST == 1

Requests == {"r1", "r2"}

\* clip/submit (account scoped), clip/submit (org scoped), clip/status POST,
\* runOne of v1/bulk/jobs, the two dub handlers
AcctSubmit == "acctSubmit"
OrgSubmit == "orgSubmit"
StatusSubmit == "statusSubmit"
BulkItem == "bulkItem"
Dub1 == "dub1"
Dub2 == "dub2"
Kinds == {AcctSubmit, OrgSubmit, StatusSubmit, BulkItem, Dub1, Dub2}
OrgSubmitKinds == {OrgSubmit, StatusSubmit, BulkItem}
SubmitKinds == {AcctSubmit, OrgSubmit, StatusSubmit, BulkItem}
ReserveFirstKinds == {AcctSubmit, Dub1, Dub2}
WorkerOutcomes == {"ok", "reject", "throw"}
DbOutcomes == {"ok", "err"}

NoJob == [exists |-> FALSE, spent |-> 0, status |-> "none"]

\* reserve_job_credits / refund_job_credits (org scoped): not in the sources;
\* same contract as reserve_credits / refund_credits on the organization's row
reserve_job_credits_update(tbl, org, amount) ==
    IF org \in DOMAIN tbl /\ tbl[org] >= amount
      THEN <<tbl[org] - amount>> ELSE SqlNull

refund_job_credits_update(tbl, org, amount) ==
    IF org \in DOMAIN tbl THEN <<tbl[org] + amount>> ELSE SqlNull

\* The first await of each handler after validation.
FirstStep(k) == IF k \in ReserveFirstKinds THEN "reserve" ELSE "worker"

\* Which reserve RPC a handler calls first: "org" is reserve_credits (the
\* name reserveCredits() gives that method), "job" is reserve_job_credits.
FirstReserve(k) == IF k \in {AcctSubmit, Dub1} THEN "org" ELSE "job"

\* Whether the handler falls back to reserve_credits when the job-scoped
\* function is reported missing (reserveCredits() of clip/submit and dub).
HasFallback(k) == k \in {OrgSubmit, Dub2}

\* What follows a successful reservation.
AfterReserve(k) ==
    CASE k \in {AcctSubmit, Dub1, Dub2} -> "worker"
      [] k \in {StatusSubmit, BulkItem} -> "insert"
      [] OTHER -> "update"

\* The 402 response to a failed reservation: msg is "Insufficient credits"
\* when the RPC error message contains "insufficient", else the message
\* itself (the job-scoped function reported missing, without fallback).
ReserveErrorResponse(missing) ==
    IF missing THEN "402 could not find the function" ELSE "402 Insufficient credits"

\* mutant: the handler goes on as if the reservation had succeeded
AfterReserveFail_Continue(k) == AfterReserve(k)

\* What follows a failed reservation: clip/submit (org) marks the row.
AfterReserveFail(k) == IF k = OrgSubmit THEN "markError" ELSE "done"

\* What follows a successful worker call.
AfterWorker(k) ==
    CASE k \in {Dub1, Dub2} -> "done"
      [] k \in ReserveFirstKinds -> "insert"
      [] k = OrgSubmit -> "insert"
      [] OTHER -> "reserve"

\* mutant: the explicit worker failure returns without refunding
OnWorkerReject_NoRefund(k) == "done"

\* if (!r.ok || !worker?.jobId): refund when something was reserved before
OnWorkerReject(k) == IF k \in ReserveFirstKinds THEN "refund" ELSE "done"

\* The catch block: clip/status, clip/submit (org) and runOne refund when
\* workerJobId && reserved; clip/submit (account) and the dub handlers
\* issue no refund in their catch.
OnWorkerThrow(k, jobid, reserved) ==
    IF k \in OrgSubmitKinds /\ jobid /\ reserved # "none" THEN "refund" ELSE "done"

\* { error: insErr.message } / { error: upErr.message }, status 500 (for a
\* bulk item: the error of the item's result)
PersistErrorResponse == "500 insErr.message"

\* mutant: a failing refund is reported instead of the error that led to it
RefundResponse_Layered(resp, out) == IF out = "err" THEN "500 refund failed" ELSE resp

\* safeRefund / safeRefundJob / refundCredits swallow the outcome of the
\* refund RPC; the response is the one already decided
RefundResponse(resp, out) == resp

\* mutant: the handler refunds although the Job Record was written
AfterInsertOk_Refund(k) == IF k = OrgSubmit THEN "reserve" ELSE "refund"

\* After the insert succeeded: clip/submit (org) reserves next, the others
\* return the job id
AfterInsertOk(k) == IF k = OrgSubmit THEN "reserve" ELSE "done"

\* mutant: a failed Job Record write returns without refunding
OnInsertErr_NoRefund(k) == "done"

\* if (insErr): clip/submit (org) has reserved nothing yet at its insert
OnInsertErr(k) == IF k = OrgSubmit THEN "done" ELSE "refund"

SagaIdle ==
    /\ orgCredits = [o \in {"o1"} |-> 0]
    /\ fnMissing = FALSE
    /\ jobs = [r \in Requests |-> NoJob]
    /\ spc = [r \in Requests |-> "idle"]
    /\ skind = [r \in Requests |-> "none"]
    /\ sreserved = [r \in Requests |-> "none"]
    /\ sjobid = [r \in Requests |-> FALSE]
    /\ sresp = [r \in Requests |-> "none"]
    /\ sworker = [r \in Requests |-> "none"]
    /\ sdebit = [r \in Requests |-> 0]
    /\ srefundCalls = [r \in Requests |-> 0]
    /\ srefunded = [r \in Requests |-> 0]

SagaInit ==
    /\ credits \in [{"u1"} -> 0..MaxBalance]
    /\ orgCredits \in [{"o1"} -> 0..MaxBalance]
    /\ fnMissing \in BOOLEAN
    /\ jobs = [r \in Requests |-> NoJob]
    /\ spc = [r \in Requests |-> "idle"]
    /\ skind = [r \in Requests |-> "none"]
    /\ sreserved = [r \in Requests |-> "none"]
    /\ sjobid = [r \in Requests |-> FALSE]
    /\ sresp = [r \in Requests |-> "none"]
    /\ sworker = [r \in Requests |-> "none"]
    /\ sdebit = [r \in Requests |-> 0]
    /\ srefundCalls = [r \in Requests |-> 0]
    /\ srefunded = [r \in Requests |-> 0]

\* A request arrives; token, body and session checks return 401/400 before
\* any effect (for the dub handlers also the job lookup, 404).
SStart(r, k, valid) ==
    /\ spc[r] = "idle"
    /\ skind' = [skind EXCEPT ![r] = k]
    /\ IF valid
         THEN /\ spc' = [spc EXCEPT ![r] = FirstStep(k)]
              /\ sresp' = sresp
         ELSE /\ spc' = [spc EXCEPT ![r] = "done"]
              /\ sresp' = [sresp EXCEPT ![r] = "4xx"]
    /\ UNCHANGED <<credits, orgCredits, fnMissing, jobs, sreserved, sjobid,
                   sworker, sdebit, srefundCalls, srefunded, ledgerLocals, billingVars, bulkVars, extraVars>>

\* Per request: how many reservations of each RPC were applied, and the
\* refund RPC that was called.
NoVia == [job |-> 0, org |-> 0, refund |-> "none"]

ViaIdle == svia = [r \in Requests |-> NoVia]

\* mutant: the refund always goes through the job-scoped RPC
RefundRpc_AlwaysJob(method) == "refund_job_credits"

\* refundCredits(sb, workerJobId, amount, method)
RefundRpc(method) ==
    IF method = "job" THEN "refund_job_credits" ELSE "refund_credits"

\* The first reserve RPC of the handler.
SReserve(r) ==
    /\ spc[r] = "reserve"
    /\ LET k == skind[r] IN
       IF FirstReserve(k) = "org"
         THEN \* sb.rpc("reserve_credits", { amount: COST })
              LET res == reserve_credits_update(credits, "u1", COST) IN
              IF res # SqlNull
                THEN /\ credits' = [credits EXCEPT !["u1"] = res[1]]
                     /\ sreserved' = [sreserved EXCEPT ![r] = "org"]
                     /\ svia' = [svia EXCEPT ![r].org = @ + 1]
                     /\ sdebit' = [sdebit EXCEPT ![r] = COST]
                     /\ spc' = [spc EXCEPT ![r] = AfterReserve(k)]
                     /\ UNCHANGED <<orgCredits, sresp>>
                ELSE /\ sresp' = [sresp EXCEPT ![r] = ReserveErrorResponse(FALSE)]
                     /\ spc' = [spc EXCEPT ![r] = AfterReserveFail(k)]
                     /\ UNCHANGED <<credits, orgCredits, sreserved, sdebit, svia>>
         ELSE \* sb.rpc("reserve_job_credits", { worker_job_id, amount: COST })
              IF fnMissing /\ HasFallback(k)
                THEN /\ spc' = [spc EXCEPT ![r] = "reserve2"]
                     /\ UNCHANGED <<credits, orgCredits, sreserved, sdebit, sresp, svia>>
                ELSE LET res == IF fnMissing THEN SqlNull
                                ELSE reserve_job_credits_update(orgCredits, "o1", COST) IN
                     IF res # SqlNull
                       THEN /\ orgCredits' = [orgCredits EXCEPT !["o1"] = res[1]]
                            /\ sreserved' = [sreserved EXCEPT ![r] = "job"]
                            /\ svia' = [svia EXCEPT ![r].job = @ + 1]
                            /\ sdebit' = [sdebit EXCEPT ![r] = COST]
                            /\ spc' = [spc EXCEPT ![r] = AfterReserve(k)]
                            /\ UNCHANGED <<credits, sresp>>
                       ELSE /\ sresp' = [sresp EXCEPT ![r] = ReserveErrorResponse(fnMissing)]
                            /\ spc' = [spc EXCEPT ![r] = AfterReserveFail(k)]
                            /\ UNCHANGED <<credits, orgCredits, sreserved, sdebit, svia>>
    /\ UNCHANGED <<fnMissing, jobs, skind, sjobid, sworker, srefundCalls,
                   srefunded, ledgerLocals, billingVars, bulkVars, uread, keys, kreq, aget>>

\* reserveCredits(): the job-scoped function is missing, so reserve_credits.
SReserveFallback(r) ==
    /\ spc[r] = "reserve2"
    /\ LET k == skind[r]
           res == reserve_credits_update(credits, "u1", COST) IN
       IF res # SqlNull
         THEN /\ credits' = [credits EXCEPT !["u1"] = res[1]]
              /\ sreserved' = [sreserved EXCEPT ![r] = "org"]
              /\ svia' = [svia EXCEPT ![r].org = @ + 1]
              /\ sdebit' = [sdebit EXCEPT ![r] = COST]
              /\ spc' = [spc EXCEPT ![r] = AfterReserve(k)]
              /\ sresp' = sresp
         ELSE /\ sresp' = [sresp EXCEPT ![r] = ReserveErrorResponse(FALSE)]
              /\ spc' = [spc EXCEPT ![r] = AfterReserveFail(k)]
              /\ UNCHANGED <<credits, sreserved, sdebit, svia>>
    /\ UNCHANGED <<orgCredits, fnMissing, jobs, skind, sjobid, sworker,
                   srefundCalls, srefunded, ledgerLocals, billingVars, bulkVars, uread, keys, kreq, aget>>

\* The worker call (POST /jobs, or POST /jobs/{id}/dub) and what the
\* handler does with its outcome.
SWorker(r, out) ==
    /\ spc[r] = "worker"
    /\ sworker' = [sworker EXCEPT ![r] = out]
    /\ LET k == skind[r] IN
       CASE out = "ok" ->
              /\ sjobid' = [sjobid EXCEPT ![r] = TRUE]
              /\ spc' = [spc EXCEPT ![r] = AfterWorker(k)]
              /\ sresp' = [sresp EXCEPT ![r] =
                    IF AfterWorker(k) = "done" THEN "200" ELSE @]
         [] out = "reject" ->
              /\ sjobid' = sjobid
              /\ spc' = [spc EXCEPT ![r] = OnWorkerReject(k)]
              /\ sresp' = [sresp EXCEPT ![r] = "502"]
         [] out = "throw" ->
              /\ sjobid' = sjobid
              /\ spc' = [spc EXCEPT ![r] = OnWorkerThrow(k, sjobid[r], sreserved[r])]
              /\ sresp' = [sresp EXCEPT ![r] = "500 Worker timeout"]
    /\ UNCHANGED <<credits, orgCredits, fnMissing, jobs, skind, sreserved,
                   sdebit, srefundCalls, srefunded, ledgerLocals, billingVars, bulkVars, extraVars>>

\* sb.from("user_jobs").insert({... credits_spent ...})
SInsert(r, out) ==
    /\ spc[r] = "insert"
    /\ LET k == skind[r] IN
       IF out = "ok"
         THEN /\ jobs' = [jobs EXCEPT ![r] =
                    [exists |-> TRUE,
                     spent |-> IF k = OrgSubmit THEN 0 ELSE COST,
                     status |-> "submitted"]]
              /\ spc' = [spc EXCEPT ![r] = AfterInsertOk(k)]
              /\ sresp' = [sresp EXCEPT ![r] = IF k = OrgSubmit THEN @ ELSE "200"]
         ELSE /\ jobs' = jobs
              /\ spc' = [spc EXCEPT ![r] = OnInsertErr(k)]
              /\ sresp' = [sresp EXCEPT ![r] = PersistErrorResponse]
    /\ UNCHANGED <<credits, orgCredits, fnMissing, skind, sreserved, sjobid,
                   sworker, sdebit, srefundCalls, srefunded, ledgerLocals, billingVars, bulkVars, extraVars>>

\* clip/submit (org): update({ credits_spent: COST }) after the reservation
SUpdateSpent(r, out) ==
    /\ spc[r] = "update"
    /\ IF out = "ok"
         THEN /\ jobs' = [jobs EXCEPT ![r].spent = COST]
              /\ spc' = [spc EXCEPT ![r] = "done"]
              /\ sresp' = [sresp EXCEPT ![r] = "200"]
         ELSE /\ jobs' = jobs
              /\ spc' = [spc EXCEPT ![r] = "refund"]
              /\ sresp' = [sresp EXCEPT ![r] = PersistErrorResponse]
    /\ UNCHANGED <<credits, orgCredits, fnMissing, skind, sreserved, sjobid,
                   sworker, sdebit, srefundCalls, srefunded, ledgerLocals, billingVars, bulkVars, extraVars>>

\* clip/submit (org): update({ status: "error" }) after a failed reservation;
\* the result of the update is not looked at
SMarkError(r, out) ==
    /\ spc[r] = "markError"
    /\ jobs' = IF out = "ok" THEN [jobs EXCEPT ![r].status = "error"] ELSE jobs
    /\ spc' = [spc EXCEPT ![r] = "done"]
    /\ UNCHANGED <<credits, orgCredits, fnMissing, skind, sreserved, sjobid, sresp,
                   sworker, sdebit, srefundCalls, srefunded, ledgerLocals, billingVars, bulkVars, extraVars>>

\* safeRefund / safeRefundJob / refundCredits: the RPC matching the
\* reservation; its outcome is ignored by the handler
SRefund(r, out) ==
    /\ spc[r] = "refund"
    /\ srefundCalls' = [srefundCalls EXCEPT ![r] = @ + 1]
    /\ LET rpc == RefundRpc(sreserved[r]) IN
       /\ svia' = [svia EXCEPT ![r].refund = rpc]
       /\ IF out = "ok"
            THEN /\ srefunded' = [srefunded EXCEPT ![r] = @ + COST]
                 /\ IF rpc = "refund_job_credits"
                      THEN /\ orgCredits' = [orgCredits EXCEPT !["o1"] =
                                 refund_job_credits_update(orgCredits, "o1", COST)[1]]
                           /\ credits' = credits
                      ELSE /\ credits' = [credits EXCEPT !["u1"] =
                                 refund_credits_update(credits, "u1", COST)[1]]
                           /\ orgCredits' = orgCredits
            ELSE UNCHANGED <<credits, orgCredits, srefunded>>
    /\ sresp' = [sresp EXCEPT ![r] = RefundResponse(@, out)]
    /\ spc' = [spc EXCEPT ![r] = "done"]
    /\ UNCHANGED <<fnMissing, jobs, skind, sreserved, sjobid, sworker,
                   sdebit, ledgerLocals, billingVars, bulkVars, uread, keys, kreq, aget>>

SagaNext ==
    \/ \E r \in Requests, k \in Kinds, valid \in BOOLEAN : SStart(r, k, valid)
    \/ \E r \in Requests : SReserve(r)
    \/ \E r \in Requests : SReserveFallback(r)
    \/ \E r \in Requests, out \in WorkerOutcomes : SWorker(r, out)
    \/ \E r \in Requests, out \in DbOutcomes : SInsert(r, out)
    \/ \E r \in Requests, out \in DbOutcomes : SUpdateSpent(r, out)
    \/ \E r \in Requests, out \in DbOutcomes : SMarkError(r, out)
    \/ \E r \in Requests, out \in DbOutcomes : SRefund(r, out)

\* ---------------------------------------------------------------------
\* Billing verify: billing/verify POST, the verify handler in
\* jobs/download/route.ts and the one in org/api-keys/route.ts, run by two
\* requests for the same order.  Every await is one action.
\* ---------------------------------------------------------------------
MaxDelta == 2
MaxSeats == 1

VerifyReqs == {"v1", "v2"}
BillingVerify == "billing/verify"
DownloadVerify == "jobs/download"
ApiKeysVerify == "org/api-keys"
VerifyVariants == {BillingVerify, DownloadVerify, ApiKeysVerify}

\* set_org_seats_delta(p_org_id, p_delta): not in the sources; it adds the
\* order's seat delta to the organization's purchased seat count
set_org_seats_delta(n, delta) == n + delta

\* mutant: the handler never takes the already-paid shortcut
PaidShortCircuit_Never(status) == FALSE

\* if (orderRow.status === "paid") return NextResponse.json({ ok: true })
PaidShortCircuit(status) == status = "paid"

\* Whether the variant verifies the HMAC before it loads the order
\* (jobs/download verifies it after the already-paid shortcut).
SignatureFirst(v) == v \in {BillingVerify, ApiKeysVerify}

\* Whether the variant requires the caller to be an admin of the org.
RequiresAdmin(v) == v \in {BillingVerify, DownloadVerify}

\* Whether the variant looks at the error of the status update.
ChecksUpdateError(v) == v = DownloadVerify

BillingIdle ==
    /\ ostatus = "created"
    /\ okind = "seats"
    /\ odelta = 0
    /\ seats = 0
    /\ seats0 = 0
    /\ apiEnabled = FALSE
    /\ vpc = [r \in VerifyReqs |-> "idle"]
    /\ vin = [r \in VerifyReqs |->
                [variant |-> "none", sig |-> FALSE, match |-> FALSE, admin |-> FALSE]]
    /\ vseen = [r \in VerifyReqs |-> "none"]
    /\ vresp = [r \in VerifyReqs |-> "none"]
    /\ vupd = [r \in VerifyReqs |-> "none"]
    /\ vappliedBy = [r \in VerifyReqs |-> FALSE]
    /\ varrival = [r \in VerifyReqs |-> [status |-> "none", alone |-> FALSE]]
    /\ vapplyCalls = 0

BillingInit ==
    /\ ostatus = "created"
    /\ okind \in {"seats", "api"}
    /\ odelta \in 1..MaxDelta
    /\ seats \in 0..MaxSeats
    /\ seats0 = seats
    /\ apiEnabled = FALSE
    /\ vpc = [r \in VerifyReqs |-> "idle"]
    /\ vin = [r \in VerifyReqs |->
                [variant |-> "none", sig |-> FALSE, match |-> FALSE, admin |-> FALSE]]
    /\ vseen = [r \in VerifyReqs |-> "none"]
    /\ vresp = [r \in VerifyReqs |-> "none"]
    /\ vupd = [r \in VerifyReqs |-> "none"]
    /\ vappliedBy = [r \in VerifyReqs |-> FALSE]
    /\ varrival = [r \in VerifyReqs |-> [status |-> "none", alone |-> FALSE]]
    /\ vapplyCalls = 0

\* A verify request arrives: token/body checks passed; sig, match and admin
\* say whether the HMAC matches, whether razorpay_order_id is the order's
\* provider_order_id and whether the caller is an admin of the order's org.
VStart(r, v, sig, match, admin) ==
    /\ vpc[r] = "idle"
    /\ vin' = [vin EXCEPT ![r] =
                 [variant |-> v, sig |-> sig, match |-> match, admin |-> admin]]
    /\ varrival' = [varrival EXCEPT ![r] =
          [status |-> ostatus,
           alone |-> \A q \in VerifyReqs \ {r} : vpc[q] \in {"idle", "done"}]]
    /\ IF SignatureFirst(v) /\ ~sig
         THEN /\ vresp' = [vresp EXCEPT ![r] = "400 Invalid signature"]
              /\ vpc' = [vpc EXCEPT ![r] = "done"]
         ELSE /\ vresp' = vresp
              /\ vpc' = [vpc EXCEPT ![r] = "load"]
    /\ UNCHANGED <<ostatus, okind, odelta, seats, seats0, apiEnabled, vseen, vupd,
                   vappliedBy, vapplyCalls, ledgerVars, sagaVars, bulkVars, extraVars>>

\* Load the order row; then the checks made on that snapshot.
VLoad(r) ==
    /\ vpc[r] = "load"
    /\ vseen' = [vseen EXCEPT ![r] = ostatus]
    /\ LET i == vin[r]
           v == i.variant
       IN CASE ~i.match ->
                 /\ vresp' = [vresp EXCEPT ![r] = "400 Order mismatch"]
                 /\ vpc' = [vpc EXCEPT ![r] = "done"]
            [] i.match /\ RequiresAdmin(v) /\ ~i.admin ->
                 /\ vresp' = [vresp EXCEPT ![r] = "403 Admin required"]
                 /\ vpc' = [vpc EXCEPT ![r] = "done"]
            [] i.match /\ (RequiresAdmin(v) => i.admin) /\ PaidShortCircuit(ostatus) ->
                 /\ vresp' = [vresp EXCEPT ![r] = "ok"]
                 /\ vpc' = [vpc EXCEPT ![r] = "done"]
            [] i.match /\ (RequiresAdmin(v) => i.admin) /\ ~PaidShortCircuit(ostatus)
                 /\ ~SignatureFirst(v) /\ ~i.sig ->
                 /\ vresp' = [vresp EXCEPT ![r] = "400 Invalid signature"]
                 /\ vpc' = [vpc EXCEPT ![r] = "done"]
            [] OTHER ->
                 /\ vresp' = vresp
                 /\ vpc' = [vpc EXCEPT ![r] = "update"]
    /\ UNCHANGED <<ostatus, okind, odelta, seats, seats0, apiEnabled, vin, vupd,
                   vappliedBy, varrival, vapplyCalls, ledgerVars, sagaVars, bulkVars, extraVars>>

\* update({ status: "paid", ... }).eq("id", orgOrderId) [.neq("status", "paid")]
VUpdate(r, out) ==
    /\ vpc[r] = "update"
    /\ vupd' = [vupd EXCEPT ![r] = out]
    /\ ostatus' = IF out = "ok" THEN "paid" ELSE ostatus
    /\ IF out = "err" /\ ChecksUpdateError(vin[r].variant)
         THEN /\ vresp' = [vresp EXCEPT ![r] = "400 update error"]
              /\ vpc' = [vpc EXCEPT ![r] = "done"]
         ELSE /\ vresp' = vresp
              /\ vpc' = [vpc EXCEPT ![r] = "apply"]
    /\ UNCHANGED <<okind, odelta, seats, seats0, apiEnabled, vin, vseen,
                   vappliedBy, varrival, vapplyCalls, ledgerVars, sagaVars, bulkVars, extraVars>>

\* Apply the entitlement of the loaded order row, then respond { ok: true }.
VApply(r) ==
    /\ vpc[r] = "apply"
    /\ vapplyCalls' = vapplyCalls + 1
    /\ vappliedBy' = [vappliedBy EXCEPT ![r] = TRUE]
    /\ IF okind = "seats"
         THEN /\ seats' = set_org_seats_delta(seats, odelta)
              /\ apiEnabled' = apiEnabled
         ELSE /\ apiEnabled' = TRUE
              /\ seats' = seats
    /\ vresp' = [vresp EXCEPT ![r] = "ok"]
    /\ vpc' = [vpc EXCEPT ![r] = "done"]
    /\ UNCHANGED <<ostatus, okind, odelta, seats0, vin, vseen, vupd, varrival,
                   ledgerVars, sagaVars, bulkVars, extraVars>>

BillingNext ==
    \/ \E r \in VerifyReqs, v \in VerifyVariants, sig, match, admin \in BOOLEAN :
          VStart(r, v, sig, match, admin)
    \/ \E r \in VerifyReqs : VLoad(r)
    \/ \E r \in VerifyReqs, out \in DbOutcomes : VUpdate(r, out)
    \/ \E r \in VerifyReqs : VApply(r)

\* ---------------------------------------------------------------------
\* Bulk submission: bulk/jobs POST (API key, sequential loop, batch-level
\* charge), v1/bulk/submit POST (x-api-key, worker pool, per-item reserve)
\* and v1/bulk/jobs POST (session, worker pool, per-item reserve; part_012
\* holds the same handler).  One request; every await is one action.
\* ---------------------------------------------------------------------
MaxItems == 2
RpmCap == 2
DailyCap == 3
MinutesPerDay == 2

DefaultConcurrency == 3
MinConcurrency == 1
MaxConcurrency == 6

ApiBulkJobs == "bulk/jobs"
ApiSubmit == "v1/bulk/submit"
SessBulk == "v1/bulk/jobs"
BulkKinds == {ApiBulkJobs, ApiSubmit, SessBulk}
ApiKeyKinds == {ApiBulkJobs, ApiSubmit}
PoolKinds == {ApiSubmit, SessBulk}

Org == "o1"
Items == 1..MaxItems
Workers == 1..MaxItems

\* ---- JavaScript numbers: NaN, or a value kept as twice the value so that
\* halves stay integers ----
NaN == [nan |-> TRUE, x2 |-> 0]
Num(k) == [nan |-> FALSE, x2 |-> 2 * k]

\* body.concurrency as sent: absent, an integer, an integer plus one half,
\* or something Number() cannot parse ("abc", an object)
ConcInputs ==
    {[tag |-> "absent", v |-> 0], [tag |-> "nan", v |-> 0], [tag |-> "half", v |-> 1]}
      \cup {[tag |-> "int", v |-> k] : k \in {-1, 0, 1, 2, MaxConcurrency + 1}}

\* Number(body?.concurrency || 3): absent and 0 are falsy
JsNumber(c) ==
    CASE c.tag = "absent" -> Num(DefaultConcurrency)
      [] c.tag = "int" /\ c.v = 0 -> Num(DefaultConcurrency)
      [] c.tag = "int" /\ c.v # 0 -> Num(c.v)
      [] c.tag = "half" -> [nan |-> FALSE, x2 |-> 2 * c.v + 1]
      [] OTHER -> NaN

\* Math.max / Math.min: NaN if either argument is NaN
JsMax(a, b) == IF a.nan \/ b.nan THEN NaN ELSE IF a.x2 >= b.x2 THEN a ELSE b
JsMin(a, b) == IF a.nan \/ b.nan THEN NaN ELSE IF a.x2 <= b.x2 THEN a ELSE b

\* Array.from({ length }): ToLength maps NaN and negatives to 0 and
\* truncates a fraction
ArrayLength(a) == IF a.nan \/ a.x2 < 0 THEN 0 ELSE a.x2 \div 2

\* const concurrency = Math.min(Math.max(Number(...), 1), 6)
Concurrency(c) == JsMin(JsMax(JsNumber(c), Num(MinConcurrency)), Num(MaxConcurrency))

\* mutant: one worker loop per item, whatever the concurrency
PoolSize_BatchLength(c, n) == n

\* Array.from({ length: Math.min(concurrency, clean.length) }, () => workerLoop())
PoolSize(c, n) == ArrayLength(JsMin(Concurrency(c), Num(n)))

\* ---- rate limiter: consume_api / consume_api_limit are not in the
\* sources; fixed minute and day buckets, the minute counter counts calls,
\* the day counter counts jobs, a rejected call changes nothing ----
Day(t) == t \div MinutesPerDay

\* mutant: the counts of a past bucket are carried over
ConsumeCounts_CarryOver(row, t, weight) ==
    [minute |-> t, mcount |-> row.mcount + 1,
     day |-> Day(t), dcount |-> row.dcount + weight]

ConsumeCounts(row, t, weight) ==
    [minute |-> t,
     mcount |-> (IF row.minute = t THEN row.mcount ELSE 0) + 1,
     day |-> Day(t),
     dcount |-> (IF row.day = Day(t) THEN row.dcount ELSE 0) + weight]

ConsumeRejected(row, t, weight, rpm, daily) ==
    LET c == ConsumeCounts(row, t, weight)
    IN c.mcount > rpm \/ c.dcount > daily

\* Which ceiling a rejected call names: the minute one is compared first.
ConsumeVariant(row, t, weight, rpm, daily) ==
    LET c == ConsumeCounts(row, t, weight)
    IN IF c.mcount > rpm THEN "minute" ELSE IF c.dcount > daily THEN "day" ELSE "none"

\* mutant: a rejected call keeps its increments
ConsumeRow_Charged(row, t, weight, rpm, daily) == ConsumeCounts(row, t, weight)

\* The stored row after the call: a rejected call raises, so nothing of it
\* is retained.
ConsumeRow(row, t, weight, rpm, daily) ==
    IF ConsumeRejected(row, t, weight, rpm, daily) THEN row
    ELSE ConsumeCounts(row, t, weight)

\* What a rate-limit call leaves in the request's log: the row it found,
\* the minute it arrived in, its arguments and its outcome, with the
\* outcome of the call before it.
LimitLog(log, row, t, weight, rpm, daily) ==
    [calls |-> log.calls + 1, prev |-> log.why,
     weight |-> weight, rpm |-> rpm, daily |-> daily,
     at |-> t, before |-> row,
     out |-> IF ConsumeRejected(row, t, weight, rpm, daily) THEN "rej" ELSE "ok",
     why |-> ConsumeVariant(row, t, weight, rpm, daily)]

\* bulk/jobs: p_jobs = cleaned.length; v1/bulk/submit: no job count is passed
LimitWeight(k, n) == IF k = ApiBulkJobs THEN n ELSE 1

\* charge_org_credits / reserve_org_credits / refund_org_credits: not in
\* the sources; the reserve/refund contract on the organization's row
charge_org_credits_update(tbl, org, amount) ==
    IF org \in DOMAIN tbl /\ tbl[org] >= amount
      THEN <<tbl[org] - amount>> ELSE SqlNull

refund_org_credits_update(tbl, org, amount) ==
    IF org \in DOMAIN tbl THEN <<tbl[org] + amount>> ELSE SqlNull

\* The per-item reserve of runOne: reserve_org_credits (v1/bulk/submit) or
\* reserve_job_credits (v1/bulk/jobs); both debit the organization's row.
ItemReserve(k, tbl, org, amount) ==
    IF k = ApiSubmit THEN charge_org_credits_update(tbl, org, amount)
                     ELSE reserve_job_credits_update(tbl, org, amount)

\* mutant: a rejected rate-limit call does not stop the handler
AfterLimit_Ignored(k, rejected) == IF k = ApiBulkJobs THEN "charge" ELSE "pool"

\* if (limErr) return 429; otherwise bulk/jobs charges, v1/bulk/submit fans out
AfterLimit(k, rejected) ==
    IF rejected THEN "done" ELSE IF k = ApiBulkJobs THEN "charge" ELSE "pool"

\* mutant: the whole batch is refunded when something failed
RefundAmount_Batch(n, failed) == n

\* refund_org_credits({ p_amount: failed })
RefundAmount(n, failed) == failed

NoItem ==
    [handed |-> 0, results |-> 0, ok |-> FALSE, job |-> FALSE, rec |-> FALSE,
     res |-> FALSE, rf |-> 0, rfok |-> 0]

NoLimit ==
    [calls |-> 0, prev |-> "none", weight |-> 0, rpm |-> 0, daily |-> 0, at |-> 0,
     before |-> [minute |-> 0, mcount |-> 0, day |-> 0, dcount |-> 0],
     out |-> "none", why |-> "none"]
NoRefund == [calls |-> 0, amount |-> 0, applied |-> 0]
FreshRow == [minute |-> 0, mcount |-> 0, day |-> 0, dcount |-> 0]

BulkLocalsIdle ==
    /\ rl = FreshRow
    /\ now = 0
    /\ bpc = "idle"
    /\ bin = [kind |-> "none", n |-> 0, conc |-> [tag |-> "absent", v |-> 0]]
    /\ bpool = 0
    /\ bresp = "none"
    /\ bidx = 0
    /\ bitems = [i \in Items |-> NoItem]
    /\ wpc = [w \in Workers |-> "off"]
    /\ witem = [w \in Workers |-> 0]
    /\ bcharged = 0
    /\ bfailed = 0
    /\ breserveCalls = 0
    /\ brefund = NoRefund
    /\ blim = NoLimit

BulkIdle == BulkLocalsIdle /\ bcredits0 = 0

\* The organization's balance and its rate-limit row as earlier requests
\* can have left them: a fresh row, or counters within the ceilings with at
\* least one call counted.
BulkInit ==
    /\ orgCredits \in [{Org} -> 0..MaxBalance]
    /\ bcredits0 = orgCredits[Org]
    /\ now = 1
    /\ rl \in {FreshRow} \cup
              {[minute |-> m, mcount |-> mc, day |-> 0, dcount |-> dc] :
                  m \in {0, 1}, mc \in {1, RpmCap}, dc \in {RpmCap, DailyCap}}
    /\ bpc = "idle"
    /\ bin = [kind |-> "none", n |-> 0, conc |-> [tag |-> "absent", v |-> 0]]
    /\ bpool = 0
    /\ bresp = "none"
    /\ bidx = 0
    /\ bitems = [i \in Items |-> NoItem]
    /\ wpc = [w \in Workers |-> "off"]
    /\ witem = [w \in Workers |-> 0]
    /\ bcharged = 0
    /\ bfailed = 0
    /\ breserveCalls = 0
    /\ brefund = NoRefund
    /\ blim = NoLimit

\* A bulk request arrives with n cleaned urls and body.concurrency = c;
\* auth is the outcome of requireApiKey / verify_org_api_key / getUser.
BStart(k, n, c, auth) ==
    /\ bpc = "idle"
    /\ k = ApiBulkJobs => c.tag = "absent"
    /\ bin' = [kind |-> k, n |-> n, conc |-> c]
    /\ IF auth
         THEN /\ bpc' = IF k \in ApiKeyKinds THEN "limit" ELSE "pool"
              /\ bresp' = bresp
              /\ bpool' = IF k \in PoolKinds THEN PoolSize(c, n) ELSE 0
              /\ wpc' = [w \in Workers |->
                           IF k \in PoolKinds /\ w <= PoolSize(c, n) THEN "take" ELSE "off"]
         ELSE /\ bpc' = "done"
              /\ bresp' = "401"
              /\ bpool' = bpool
              /\ wpc' = wpc
    /\ UNCHANGED <<orgCredits, rl, now, bidx, bitems, witem, bcharged, bfailed,
                   breserveCalls, brefund, blim, bcredits0, otherVars>>

\* consume_api({ p_org_id, p_jobs }) / consume_api_limit({ p_org_id, p_prefix, p_rpm, p_daily })
BLimit ==
    /\ bpc = "limit"
    /\ LET w == LimitWeight(bin.kind, bin.n)
           rej == ConsumeRejected(rl, now, w, RpmCap, DailyCap)
       IN /\ blim' = LimitLog(blim, rl, now, w, RpmCap, DailyCap)
          /\ rl' = ConsumeRow(rl, now, w, RpmCap, DailyCap)
          /\ bpc' = AfterLimit(bin.kind, rej)
          /\ bresp' = IF AfterLimit(bin.kind, rej) = "done" THEN "429" ELSE bresp
    /\ UNCHANGED <<orgCredits, now, bin, bpool, bidx, bitems, wpc, witem, bcharged,
                   bfailed, breserveCalls, brefund, bcredits0, otherVars>>

\* charge_org_credits({ p_org_id, p_amount: cleaned.length })
BCharge ==
    /\ bpc = "charge"
    /\ breserveCalls' = breserveCalls + 1
    /\ LET res == charge_org_credits_update(orgCredits, Org, bin.n)
       IN IF res = SqlNull
            THEN /\ bpc' = "done"
                 /\ bresp' = "402"
                 /\ UNCHANGED <<orgCredits, bcharged, bidx>>
            ELSE /\ orgCredits' = [orgCredits EXCEPT ![Org] = res[1]]
                 /\ bcharged' = bin.n
                 /\ bidx' = 1
                 /\ bpc' = "loop"
                 /\ bresp' = bresp
    /\ UNCHANGED <<rl, now, bin, bpool, bitems, wpc, witem, bfailed, brefund,
                   blim, bcredits0, otherVars>>

\* What follows item bidx of the for loop, given the count of failed items.
AfterItem(failed) ==
    IF bidx < bin.n THEN "loop" ELSE IF failed > 0 THEN "jrefund" ELSE "done"

\* for (const url of cleaned): createWorkerJob(url), which throws on a
\* transport failure and on !res.ok; catch: failed += 1
BJWorker(out) ==
    /\ bpc = "loop"
    /\ IF out = "ok"
         THEN /\ bitems' = [bitems EXCEPT ![bidx].handed = @ + 1, ![bidx].job = TRUE]
              /\ bpc' = "jinsert"
              /\ UNCHANGED <<bfailed, bidx, bresp>>
         ELSE /\ bitems' = [bitems EXCEPT ![bidx].handed = @ + 1, ![bidx].results = @ + 1]
              /\ bfailed' = bfailed + 1
              /\ bpc' = AfterItem(bfailed + 1)
              /\ bidx' = IF bidx < bin.n THEN bidx + 1 ELSE bidx
              /\ bresp' = bresp
    /\ UNCHANGED <<orgCredits, rl, now, bin, bpool, wpc, witem, bcharged,
                   breserveCalls, brefund, blim, bcredits0, otherVars>>

\* insert({ ..., status: "queued", credits_spent: 1 }); if (insErr) throw
BJInsert(out) ==
    /\ bpc = "jinsert"
    /\ LET failed == IF out = "ok" THEN bfailed ELSE bfailed + 1
       IN /\ bitems' = IF out = "ok"
                         THEN [bitems EXCEPT ![bidx].rec = TRUE, ![bidx].ok = TRUE,
                                              ![bidx].results = @ + 1]
                         ELSE [bitems EXCEPT ![bidx].results = @ + 1]
          /\ bfailed' = failed
          /\ bpc' = AfterItem(failed)
          /\ bresp' = IF AfterItem(failed) = "done" THEN "200" ELSE bresp
    /\ bidx' = IF bidx < bin.n THEN bidx + 1 ELSE bidx
    /\ UNCHANGED <<orgCredits, rl, now, bin, bpool, wpc, witem, bcharged,
                   breserveCalls, brefund, blim, bcredits0, otherVars>>

\* if (failed > 0) await refund_org_credits({ p_amount: failed }); the
\* result of the call is not looked at
BJRefund(out) ==
    /\ bpc = "jrefund"
    /\ LET amt == RefundAmount(bin.n, bfailed)
           res == refund_org_credits_update(orgCredits, Org, amt)
       IN IF out = "ok" /\ res # SqlNull
            THEN /\ orgCredits' = [orgCredits EXCEPT ![Org] = res[1]]
                 /\ brefund' = [calls |-> brefund.calls + 1, amount |-> amt,
                                applied |-> brefund.applied + amt]
            ELSE /\ orgCredits' = orgCredits
                 /\ brefund' = [calls |-> brefund.calls + 1, amount |-> amt,
                                applied |-> brefund.applied]
    /\ bpc' = "done"
    /\ bresp' = "200"
    /\ UNCHANGED <<rl, now, bin, bpool, bidx, bitems, wpc, witem, bcharged, bfailed,
                   breserveCalls, blim, bcredits0, otherVars>>

\* ---- the worker pool: idx and results are shared by the worker loops ----

\* while (idx < clean.length) { const current = clean[idx++]; ... runOne(current)
WTake(w) ==
    /\ bpc = "pool"
    /\ wpc[w] = "take"
    /\ IF bidx < bin.n
         THEN /\ bidx' = bidx + 1
              /\ witem' = [witem EXCEPT ![w] = bidx + 1]
              /\ bitems' = [bitems EXCEPT ![bidx + 1].handed = @ + 1]
              /\ wpc' = [wpc EXCEPT ![w] = "worker"]
         ELSE /\ wpc' = [wpc EXCEPT ![w] = "exit"]
              /\ UNCHANGED <<bidx, witem, bitems>>
    /\ UNCHANGED <<orgCredits, rl, now, bpc, bin, bpool, bresp, bcharged, bfailed,
                   breserveCalls, brefund, blim, bcredits0, otherVars>>

\* runOne: fetchWithTimeout(worker /jobs).  !r.ok || !workerJobId returns a
\* failed result; a throw is turned into a failed result by runOne's catch
\* (v1/bulk/jobs) or by workerLoop's catch (v1/bulk/submit).
WWorker(w, out) ==
    /\ bpc = "pool"
    /\ wpc[w] = "worker"
    /\ IF out = "ok"
         THEN /\ bitems' = [bitems EXCEPT ![witem[w]].job = TRUE]
              /\ wpc' = [wpc EXCEPT ![w] = "reserve"]
         ELSE /\ bitems' = [bitems EXCEPT ![witem[w]].results = @ + 1]
              /\ wpc' = [wpc EXCEPT ![w] = "take"]
    /\ UNCHANGED <<orgCredits, rl, now, bpc, bin, bpool, bresp, bidx, witem, bcharged,
                   bfailed, breserveCalls, brefund, blim, bcredits0, otherVars>>

\* runOne: reserve_org_credits / reserve_job_credits for COST
WReserve(w) ==
    /\ bpc = "pool"
    /\ wpc[w] = "reserve"
    /\ breserveCalls' = breserveCalls + 1
    /\ LET res == ItemReserve(bin.kind, orgCredits, Org, COST)
       IN IF res = SqlNull
            THEN /\ bitems' = [bitems EXCEPT ![witem[w]].results = @ + 1]
                 /\ wpc' = [wpc EXCEPT ![w] = "take"]
                 /\ orgCredits' = orgCredits
            ELSE /\ orgCredits' = [orgCredits EXCEPT ![Org] = res[1]]
                 /\ bitems' = [bitems EXCEPT ![witem[w]].res = TRUE]
                 /\ wpc' = [wpc EXCEPT ![w] = "insert"]
    /\ UNCHANGED <<rl, now, bpc, bin, bpool, bresp, bidx, witem, bcharged, bfailed,
                   brefund, blim, bcredits0, otherVars>>

\* runOne: insert({ ..., status: "submitted", credits_spent: COST })
WInsert(w, out) ==
    /\ bpc = "pool"
    /\ wpc[w] = "insert"
    /\ IF out = "ok"
         THEN /\ bitems' = [bitems EXCEPT ![witem[w]].rec = TRUE, ![witem[w]].ok = TRUE,
                                          ![witem[w]].results = @ + 1]
              /\ wpc' = [wpc EXCEPT ![w] = "take"]
         ELSE /\ bitems' = bitems
              /\ wpc' = [wpc EXCEPT ![w] = "refund"]
    /\ UNCHANGED <<orgCredits, rl, now, bpc, bin, bpool, bresp, bidx, witem, bcharged,
                   bfailed, breserveCalls, brefund, blim, bcredits0, otherVars>>

\* runOne: refund_org_credits / safeRefundJob after a failed insert, then
\* the failed result
WRefund(w, out) ==
    /\ bpc = "pool"
    /\ wpc[w] = "refund"
    /\ LET res == refund_org_credits_update(orgCredits, Org, COST)
       IN IF out = "ok" /\ res # SqlNull
            THEN /\ orgCredits' = [orgCredits EXCEPT ![Org] = res[1]]
                 /\ bitems' = [bitems EXCEPT ![witem[w]].rf = @ + 1,
                                  ![witem[w]].rfok = @ + 1, ![witem[w]].results = @ + 1]
            ELSE /\ orgCredits' = orgCredits
                 /\ bitems' = [bitems EXCEPT ![witem[w]].rf = @ + 1,
                                  ![witem[w]].results = @ + 1]
    /\ wpc' = [wpc EXCEPT ![w] = "take"]
    /\ UNCHANGED <<rl, now, bpc, bin, bpool, bresp, bidx, witem, bcharged, bfailed,
                   breserveCalls, brefund, blim, bcredits0, otherVars>>

\* await Promise.all(workers); return { ok: true, orgId, count, results }
BPoolDone ==
    /\ bpc = "pool"
    /\ \A w \in Workers : wpc[w] \in {"off", "exit"}
    /\ bpc' = "done"
    /\ bresp' = "200"
    /\ UNCHANGED <<orgCredits, rl, now, bin, bpool, bidx, bitems, wpc, witem, bcharged,
                   bfailed, breserveCalls, brefund, blim, bcredits0, otherVars>>

\* ---- the rate limiter on its own: calls of any weight and ceilings
\* arriving as the clock moves ----
MaxTime == 3
MaxLimitCalls == 3

\* the wall clock passes into the next minute
RTick ==
    /\ now < MaxTime
    /\ now' = now + 1
    /\ UNCHANGED <<orgCredits, rl, bpc, bin, bpool, bresp, bidx, bitems, wpc, witem,
                   bcharged, bfailed, breserveCalls, brefund, blim, bcredits0, otherVars>>

\* one consume_api / consume_api_limit call
RConsume(weight, rpm, daily) ==
    /\ blim.calls < MaxLimitCalls
    /\ blim' = LimitLog(blim, rl, now, weight, rpm, daily)
    /\ rl' = ConsumeRow(rl, now, weight, rpm, daily)
    /\ UNCHANGED <<orgCredits, now, bpc, bin, bpool, bresp, bidx, bitems, wpc, witem,
                   bcharged, bfailed, breserveCalls, brefund, bcredits0, otherVars>>

RateNext ==
    \/ RTick
    \/ \E weight \in Items, rpm \in 1..RpmCap, daily \in 1..DailyCap :
          RConsume(weight, rpm, daily)

\* ---------------------------------------------------------------------
\* Artifacts: the status GET of part_015 and the artifact GET of part_016,
\* asked about the worker job of a single request.  The worker knows
\* nothing of credits: it reports whatever state the job is in.
\* ---------------------------------------------------------------------
WorkerStatuses == {"queued", "done", "error"}

ArtifactIdle == aget = [r \in Requests |-> "none"]

\* part_015 GET: 404 without a user_jobs row; otherwise the worker's job is
\* returned and the row's status is set to the worker's status.
AStatus(r, wstatus, out) ==
    /\ sjobid[r]
    /\ jobs[r].exists
    /\ jobs' = IF out = "ok" /\ wstatus # jobs[r].status
                 THEN [jobs EXCEPT ![r].status = wstatus] ELSE jobs
    /\ UNCHANGED <<credits, orgCredits, fnMissing, spc, skind, sreserved, sjobid, sresp,
                   sworker, sdebit, srefundCalls, srefunded, ledgerLocals, billingVars,
                   bulkVars, extraVars>>

\* What the artifact GET answers for a base artifact: the row is only
\* looked up by worker_job_id, then the worker's status decides.
ArtifactAnswer(row, wstatus) ==
    IF ~row.exists THEN "404"
    ELSE IF wstatus # "done" THEN "409"
    ELSE "url"

\* part_016 GET for the job id the submit response carried
AGet(r, wstatus) ==
    /\ sjobid[r]
    /\ aget' = [aget EXCEPT ![r] = ArtifactAnswer(jobs[r], wstatus)]
    /\ UNCHANGED <<ledgerVars, sagaVars, billingVars, bulkVars, uread, keys, kreq, svia>>

\* One submit request and the reads that follow it.
ArtifactNext ==
    \/ \E k \in Kinds, valid \in BOOLEAN : SStart("r1", k, valid)
    \/ SReserve("r1")
    \/ SReserveFallback("r1")
    \/ \E out \in WorkerOutcomes : SWorker("r1", out)
    \/ \E out \in DbOutcomes : SInsert("r1", out)
    \/ \E out \in DbOutcomes : SUpdateSpent("r1", out)
    \/ \E out \in DbOutcomes : SMarkError("r1", out)
    \/ \E out \in DbOutcomes : SRefund("r1", out)
    \/ \E wstatus \in WorkerStatuses, out \in DbOutcomes : AStatus("r1", wstatus, out)
    \/ \E wstatus \in WorkerStatuses : AGet("r1", wstatus)

\* ---------------------------------------------------------------------
\* Usage read projection: org/summary GET, the usage GET of part_017 and
\* loadOrgContext of lib/org-client.ts
\* ---------------------------------------------------------------------
\* A Date is a number of ticks since the epoch; rl.minute and now count
\* whole minutes.
TicksPerMinute == 2

\* d.setSeconds(0, 0)
setSeconds0(d) == d - (d % TicksPerMinute)

\* d.toISOString(), as its date, hour:minute and seconds parts
toISOString(d) ==
    [date |-> Day(d \div TicksPerMinute),
     hm |-> (d \div TicksPerMinute) % MinutesPerDay,
     s |-> d % TicksPerMinute]

\* d.toISOString().slice(0, 16)
minuteKey(d) == [date |-> toISOString(d).date, hm |-> toISOString(d).hm]

\* now.toISOString().slice(0, 10)
todayISO(d) == toISOString(d).date

\* mutant: the stored bucket is never compared with the clock
isSameMinute_Any(a, d) == TRUE

\* org/summary: Math.floor(ta / 60000) === Math.floor(tn.getTime() / 60000)
isSameMinute(a, d) ==
    (a \div TicksPerMinute) = (setSeconds0(d) \div TicksPerMinute)

\* second handler of org/summary: both dates truncated, then compared
sameMinute(ts, minuteStart) == setSeconds0(ts) = setSeconds0(minuteStart)

SummaryGet == "org/summary"
SummaryGet2 == "org/summary (2)"
UsageGet == "part_017"
OrgClient == "loadOrgContext"
Readers == {SummaryGet, SummaryGet2, UsageGet, OrgClient}

\* The org_api_usage row as maybeSingle() returns it: <<>> when there is
\* none.  A row is written by the first accepted rate-limit call.
UsageRow(row) ==
    IF row = FreshRow THEN <<>>
    ELSE <<[minute_bucket |-> row.minute * TicksPerMinute, minute_count |-> row.mcount,
            day |-> row.day, day_count |-> row.dcount]>>

\* usageRow?.minute_bucket && <same minute> ? Number(count || 0) : 0
MinuteUsed(reader, data, d) ==
    IF data = <<>> THEN 0
    ELSE LET row == data[1]
             same == CASE reader = SummaryGet -> isSameMinute(row.minute_bucket, d)
                       [] reader = SummaryGet2 -> sameMinute(row.minute_bucket, setSeconds0(d))
                       [] reader = UsageGet -> minuteKey(row.minute_bucket) = minuteKey(d)
                       [] OTHER -> minuteKey(row.minute_bucket) = minuteKey(setSeconds0(d))
         IN IF same THEN row.minute_count ELSE 0

\* usageRow?.day === todayISO ? Number(count || 0) : 0
DailyUsed(data, d) ==
    IF data = <<>> THEN 0
    ELSE IF data[1].day = todayISO(d) THEN data[1].day_count ELSE 0

\* What the reader does with an error of the usage query: org/summary and
\* part_017 answer 400, loadOrgContext throws, the second org/summary
\* handler does not look at it and goes on with data = null.
OnUsageError(reader) ==
    CASE reader = SummaryGet2 -> "200"
      [] reader = OrgClient -> "throw"
      [] OTHER -> "400"

NoRead ==
    [reader |-> "none", at |-> 0, fetch |-> "none", status |-> "none",
     minuteUsed |-> 0, dailyUsed |-> 0, row |-> FreshRow]

ReadIdle == uread = NoRead

\* One read of the projection at the instant now + off ticks.
URead(reader, off, fetch) ==
    LET d == now * TicksPerMinute + off
        data == IF fetch = "ok" THEN UsageRow(rl) ELSE <<>>
        status == IF fetch = "ok" THEN "200" ELSE OnUsageError(reader)
    IN /\ uread = NoRead
       /\ uread' = [reader |-> reader, at |-> d, fetch |-> fetch, status |-> status,
                    minuteUsed |-> IF status = "200" THEN MinuteUsed(reader, data, d) ELSE 0,
                    dailyUsed |-> IF status = "200" THEN DailyUsed(data, d) ELSE 0,
                    row |-> rl]
       /\ UNCHANGED <<orgCredits, bulkVars, ledgerVars, sagaLocals, billingVars, keys, kreq, svia, aget>>

\* the reader has answered
UDone ==
    /\ uread # NoRead
    /\ uread' = NoRead
    /\ UNCHANGED <<orgCredits, bulkVars, ledgerVars, sagaLocals, billingVars, keys, kreq, svia, aget>>

\* A rate-limit call made with the organization's ceilings, as the readers
\* see it: only the stored row matters.
UWrite(weight) ==
    /\ uread = NoRead
    /\ rl' = ConsumeRow(rl, now, weight, RpmCap, DailyCap)
    /\ UNCHANGED <<orgCredits, now, bpc, bin, bpool, bresp, bidx, bitems, wpc, witem,
                   bcharged, bfailed, breserveCalls, brefund, blim, bcredits0, otherVars>>

\* the clock between two requests
UTick ==
    /\ uread = NoRead
    /\ RTick

\* reads at any instant, between rate-limit calls
UsageNext ==
    \/ UTick
    \/ \E weight \in Items : UWrite(weight)
    \/ \E reader \in Readers, off \in 0..(TicksPerMinute - 1), fetch \in {"ok", "err"} :
          URead(reader, off, fetch)
    \/ UDone

\* ---------------------------------------------------------------------
\* API keys: lib requireApiKey (part_006) in front of bulk/jobs, and the
\* revocation of a key
\* ---------------------------------------------------------------------
\* A bearer value is the sequence of its parts between underscores; the
\* prefix part is a sequence of characters so that its length is computed.
Prefix1 == <<1, 1, 1, 1, 1, 1>>
Prefix2 == <<2, 2, 2, 2, 2, 2>>
Token1 == <<"clp", Prefix1, "secret1">>
Token2 == <<"clp", Prefix2, "secret2">>
\* well-formed, never issued: the prefix of key 1 with another secret
TokenForged == <<"clp", Prefix1, "guess">>
\* no Authorization header, another scheme, no secret part, short prefix
TokenNone == <<>>
TokenOther == <<"sk", Prefix1, "secret1">>
TokenTwoParts == <<"clp", Prefix1>>
TokenShort == <<"clp", <<1, 1, 1>>, "secret1">>
Tokens ==
    {Token1, Token2, TokenForged, TokenNone, TokenOther, TokenTwoParts, TokenShort}

MinPrefixLen == 6

\* parseCliplinguaApiKey: null is <<>>
parseCliplinguaApiKey(apiKey) ==
    IF Len(apiKey) < 2 \/ apiKey[1] # "clp" THEN <<>>
    ELSE IF Len(apiKey) < 3 THEN <<>>
    ELSE IF Len(apiKey[2]) < MinPrefixLen THEN <<>>
    ELSE <<[prefix |-> apiKey[2]]>>

\* crypto.createHash("sha256").update(apiKey).digest("hex"): distinct
\* tokens have distinct digests
Sha256(apiKey) == [sha256 |-> apiKey]

KeyIds == {"k1", "k2"}

\* the rows .eq("key_hash", hash).is("revoked_at", null) selects
MatchingKeys(tbl, hash) ==
    {k \in DOMAIN tbl : tbl[k].key_hash = hash /\ ~tbl[k].revoked}

\* mutant: the query without .is("revoked_at", null)
requireApiKey_AnyRow(tbl, apiKey, fault) ==
    LET rows == {k \in DOMAIN tbl : tbl[k].key_hash = Sha256(apiKey)}
    IN IF apiKey = <<>> \/ parseCliplinguaApiKey(apiKey) = <<>> \/ fault = "err"
          \/ Cardinality(rows) # 1
         THEN <<>>
         ELSE LET k == CHOOSE x \in rows : TRUE
              IN <<[orgId |-> tbl[k].org_id, prefix |-> tbl[k].prefix]>>

\* requireApiKey: <<auth>> when it returns, <<>> when it throws.
\* maybeSingle() reports an error when more than one row matches.
requireApiKey(tbl, apiKey, fault) ==
    LET rows == MatchingKeys(tbl, Sha256(apiKey))
    IN IF apiKey = <<>> \/ parseCliplinguaApiKey(apiKey) = <<>> THEN <<>>
       ELSE IF fault = "err" \/ Cardinality(rows) > 1 THEN <<>>
       ELSE IF rows = {} THEN <<>>
       ELSE LET k == CHOOSE x \in rows : TRUE
            IN <<[orgId |-> tbl[k].org_id, prefix |-> tbl[k].prefix]>>

\* The keys create_org_api_key has issued to the organization.
IssuedKeys ==
    [k \in KeyIds |->
        IF k = "k1"
          THEN [key_hash |-> Sha256(Token1), prefix |-> Prefix1, org_id |-> "o1",
                revoked |-> FALSE]
          ELSE [key_hash |-> Sha256(Token2), prefix |-> Prefix2, org_id |-> "o1",
                revoked |-> FALSE]]

NoKeyReq == [token |-> <<>>, fault |-> "none", table |-> IssuedKeys, auth |-> <<>>, made |-> FALSE]

KeysIdle == keys = IssuedKeys /\ kreq = NoKeyReq

ExtraIdle == ReadIdle /\ KeysIdle /\ ViaIdle /\ ArtifactIdle

\* revoke_org_api_key({ prefix }): revoked_at := now() on the key of that
\* prefix
KRevoke(k) ==
    /\ ~keys[k].revoked
    /\ keys' = [keys EXCEPT ![k].revoked = TRUE]
    /\ UNCHANGED <<orgCredits, bulkVars, ledgerVars, sagaLocals, billingVars, uread, kreq, svia, aget>>

\* POST bulk/jobs arrives with a bearer value and n cleaned urls:
\* requireApiKey, and 401 from the outer catch when it throws.
KStart(apiKey, n, fault) ==
    /\ bpc = "idle"
    /\ LET auth == requireApiKey(keys, apiKey, fault)
       IN /\ kreq' = [token |-> apiKey, fault |-> fault, table |-> keys, auth |-> auth,
                      made |-> TRUE]
          /\ bin' = [kind |-> ApiBulkJobs, n |-> n, conc |-> [tag |-> "absent", v |-> 0]]
          /\ bpc' = IF auth # <<>> THEN "limit" ELSE "done"
          /\ bresp' = IF auth # <<>> THEN bresp ELSE "401"
    /\ UNCHANGED <<orgCredits, rl, now, bpool, bidx, bitems, wpc, witem, bcharged, bfailed,
                   breserveCalls, brefund, blim, bcredits0, ledgerVars, sagaLocals,
                   billingVars, uread, keys, svia, aget>>

KeysNext ==
    \/ \E apiKey \in Tokens, n \in Items, fault \in DbOutcomes : KStart(apiKey, n, fault)
    \/ \E k \in KeyIds : KRevoke(k)
    \/ BLimit
    \/ BCharge
    \/ \E out \in WorkerOutcomes : BJWorker(out)
    \/ \E out \in DbOutcomes : BJInsert(out)
    \/ \E out \in DbOutcomes : BJRefund(out)

\* ---------------------------------------------------------------------
\* API-key bulk dub: bulk/dub POST.  requireApiKey, ownership of the job
\* ids, one consume_api call, then startDub for every item in turn.
\* ---------------------------------------------------------------------
ApiBulkDub == "bulk/dub"

\* auth: requireApiKey returned; owned: every jobId belongs to the key's org
DStart(n, auth, owned) ==
    /\ bpc = "idle"
    /\ bin' = [kind |-> ApiBulkDub, n |-> n, conc |-> [tag |-> "absent", v |-> 0]]
    /\ bpc' = IF auth /\ owned THEN "dlimit" ELSE "done"
    /\ bresp' = IF ~auth THEN "401" ELSE IF ~owned THEN "403" ELSE bresp
    /\ UNCHANGED <<orgCredits, rl, now, bpool, bidx, bitems, wpc, witem, bcharged, bfailed,
                   breserveCalls, brefund, blim, bcredits0, otherVars>>

\* consume_api({ p_org_id, p_jobs: cleaned.length }); 429 on its error
DLimit ==
    /\ bpc = "dlimit"
    /\ blim' = LimitLog(blim, rl, now, bin.n, RpmCap, DailyCap)
    /\ rl' = ConsumeRow(rl, now, bin.n, RpmCap, DailyCap)
    /\ IF ConsumeRejected(rl, now, bin.n, RpmCap, DailyCap)
         THEN bpc' = "done" /\ bresp' = "429" /\ bidx' = bidx
         ELSE bpc' = "dloop" /\ bresp' = bresp /\ bidx' = 1
    /\ UNCHANGED <<orgCredits, now, bin, bpool, bitems, wpc, witem, bcharged, bfailed,
                   breserveCalls, brefund, bcredits0, otherVars>>

\* for (const it of cleaned): startDub, which throws on a transport
\* failure and on !res.ok; either way one result is pushed.  After the
\* last item the handler answers { ok: true, results }.
DDub(out) ==
    /\ bpc = "dloop"
    /\ bitems' = IF out = "ok"
                   THEN [bitems EXCEPT ![bidx].handed = @ + 1, ![bidx].job = TRUE,
                                        ![bidx].ok = TRUE, ![bidx].results = @ + 1]
                   ELSE [bitems EXCEPT ![bidx].handed = @ + 1, ![bidx].results = @ + 1]
    /\ IF bidx < bin.n
         THEN bidx' = bidx + 1 /\ bpc' = bpc /\ bresp' = bresp
         ELSE bidx' = bidx /\ bpc' = "done" /\ bresp' = "200"
    /\ UNCHANGED <<orgCredits, rl, now, bin, bpool, wpc, witem, bcharged, bfailed,
                   breserveCalls, brefund, blim, bcredits0, otherVars>>

DubNext ==
    \/ \E n \in Items, auth, owned \in BOOLEAN : DStart(n, auth, owned)
    \/ DLimit
    \/ \E out \in WorkerOutcomes : DDub(out)

BulkNext ==
    \/ \E k \in BulkKinds, n \in Items, c \in ConcInputs, auth \in BOOLEAN :
          BStart(k, n, c, auth)
    \/ BLimit
    \/ BCharge
    \/ \E out \in WorkerOutcomes : BJWorker(out)
    \/ \E out \in DbOutcomes : BJInsert(out)
    \/ \E out \in DbOutcomes : BJRefund(out)
    \/ \E w \in Workers : WTake(w)
    \/ \E w \in Workers, out \in WorkerOutcomes : WWorker(w, out)
    \/ \E w \in Workers : WReserve(w)
    \/ \E w \in Workers, out \in DbOutcomes : WInsert(w, out)
    \/ \E w \in Workers, out \in DbOutcomes : WRefund(w, out)
    \/ BPoolDone


\* ---------------------------------------------------------------------
\* Specifications.  Each one runs one group of handlers and pins the
\* variables of the other groups.
\* ---------------------------------------------------------------------
LedgerPinned ==
    /\ credits = [u \in {"u1"} |-> 0]
    /\ startCredits = credits
    /\ LedgerIdle

Init == LedgerInit /\ SagaIdle /\ BillingIdle /\ BulkIdle /\ ExtraIdle

Spec == Init /\ [][LedgerNext]_vars

\* The two functions called with any integer amount.
InitAmounts == LedgerInit /\ SagaIdle /\ BillingIdle /\ BulkIdle /\ ExtraIdle

SpecAmounts == InitAmounts /\ [][AmountsNext]_vars

\* The SQL functions together with the statements the policies admit.
InitDb == LedgerInit /\ SagaIdle /\ BillingIdle /\ BulkIdle /\ ExtraIdle

SpecDb == InitDb /\ [][DbNext]_vars

\* reserve_credits on a table with two profile rows.
InitRows ==
    /\ credits \in [{"u1", "u3"} -> 0..MaxBalance]
    /\ startCredits = credits
    /\ LedgerIdle /\ SagaIdle /\ BillingIdle /\ BulkIdle /\ ExtraIdle

SpecRows == InitRows /\ [][ReserveNext]_vars

\* bcredits0 keeps the organization's balance at the start
InitSaga ==
    /\ SagaInit /\ startCredits = credits /\ LedgerIdle /\ BillingIdle
    /\ BulkLocalsIdle /\ bcredits0 = orgCredits["o1"] /\ ExtraIdle

SpecSaga == InitSaga /\ [][SagaNext]_vars

InitBilling == BillingInit /\ LedgerPinned /\ SagaIdle /\ BulkIdle /\ ExtraIdle

SpecBilling == InitBilling /\ [][BillingNext]_vars

SagaLocalsIdle ==
    /\ fnMissing = FALSE
    /\ jobs = [r \in Requests |-> NoJob]
    /\ spc = [r \in Requests |-> "idle"]
    /\ skind = [r \in Requests |-> "none"]
    /\ sreserved = [r \in Requests |-> "none"]
    /\ sjobid = [r \in Requests |-> FALSE]
    /\ sresp = [r \in Requests |-> "none"]
    /\ sworker = [r \in Requests |-> "none"]
    /\ sdebit = [r \in Requests |-> 0]
    /\ srefundCalls = [r \in Requests |-> 0]
    /\ srefunded = [r \in Requests |-> 0]

InitBulk == BulkInit /\ LedgerPinned /\ SagaLocalsIdle /\ BillingIdle /\ ExtraIdle

SpecBulk == InitBulk /\ [][BulkNext]_vars

\* The rate limiter alone, from a fresh counters row at minute 0.
InitRate == BulkIdle /\ LedgerPinned /\ SagaIdle /\ BillingIdle /\ ExtraIdle

SpecRate == InitRate /\ [][RateNext]_vars

\* The usage counters as the limiter writes them, read at any instant.
InitUsage == BulkIdle /\ LedgerPinned /\ SagaIdle /\ BillingIdle /\ ExtraIdle

\* A submit request followed by status and artifact reads of its job.
InitArtifact ==
    /\ SagaInit /\ startCredits = credits /\ LedgerIdle /\ BillingIdle
    /\ BulkLocalsIdle /\ bcredits0 = orgCredits["o1"] /\ ExtraIdle

SpecArtifact == InitArtifact /\ [][ArtifactNext]_vars

\* The API-key bulk dub handler.
InitDub == BulkInit /\ LedgerPinned /\ SagaLocalsIdle /\ BillingIdle /\ ExtraIdle

SpecDub == InitDub /\ [][DubNext]_vars

\* bulk/jobs behind requireApiKey, with keys being revoked.
InitKeys == BulkInit /\ LedgerPinned /\ SagaLocalsIdle /\ BillingIdle /\ ExtraIdle

SpecKeys == InitKeys /\ [][KeysNext]_vars

SpecUsage == InitUsage /\ [][UsageNext]_vars



\* ---------------------------------------------------------------------
\* C1: no double-spend.  In every reachable state the stored balance of
\* every account is >= 0, the balance is the start balance minus what the
\* successful reserves took plus what the refunds gave back, and so the
\* successful reserves never took more than the start balance plus the
\* refunds (with no refund: never more than the start balance B).
\* ---------------------------------------------------------------------
C1_NoDoubleSpend ==
    \A a \in DOMAIN credits :
        /\ credits[a] >= 0
        /\ credits[a] = startCredits[a] - sumReserved[a] + sumRefunded[a]
        /\ sumReserved[a] - sumRefunded[a] <= startCredits[a]
        /\ (sumRefunded[a] = 0 => sumReserved[a] <= startCredits[a])

\* Two reserves were in flight at once against a balance that covered only
\* one of them: one succeeded (took the whole balance), the other failed.
C1_Witness ==
    \E s, t \in Sessions :
        /\ s # t
        /\ luid[s] = "u1" /\ luid[t] = "u1"
        /\ lop[s] = "reserve" /\ lop[t] = "reserve"
        /\ lpc[s] = "return" /\ lpc[t] = "return"
        /\ lremaining[s] = <<0>> /\ lremaining[t] = SqlNull
        /\ startCredits["u1"] > 0
        /\ sumRefunded["u1"] = 0
        /\ lamt[s] = startCredits["u1"] /\ lamt[t] <= startCredits["u1"]

Paid(r) == jobs[r].exists /\ jobs[r].spent = COST

\* What the request has taken from its scope and not given back.
NetDebit(r) == sdebit[r] - srefunded[r]

\* Every refund RPC the request issued was applied.
RefundsApplied(r) == srefunded[r] = COST * srefundCalls[r]

\* ---------------------------------------------------------------------
\* C2: saga consistency of the org-scoped submit handlers (clip/status
\* POST, clip/submit org-scoped, runOne of v1/bulk/jobs).  When such a
\* handler has returned, whatever failed at worker create, reserve or the
\* job-record write: either a Job Record with credits_spent = COST exists,
\* the reservation was taken and no refund was issued; or no such record
\* exists and the reservation was never taken or exactly one refund was
\* issued for it.  With the refund RPC applied, the net debit is COST in
\* the first case and 0 in the second.
\* ---------------------------------------------------------------------
C2_SagaConsistency ==
    \A r \in Requests :
        (spc[r] = "done" /\ skind[r] \in OrgSubmitKinds) =>
            /\ Paid(r) => (sdebit[r] = COST /\ srefundCalls[r] = 0)
            /\ ~Paid(r) => \/ (sdebit[r] = 0 /\ srefundCalls[r] = 0)
                           \/ (sdebit[r] = COST /\ srefundCalls[r] = 1)
            /\ RefundsApplied(r) => NetDebit(r) = (IF Paid(r) THEN COST ELSE 0)

\* One request whose job-record write failed after its reservation and was
\* refunded, next to one that ended with a paid Job Record.
C2_Witness ==
    /\ spc["r1"] = "done" /\ skind["r1"] = StatusSubmit
    /\ sworker["r1"] = "ok" /\ sdebit["r1"] = COST /\ sresp["r1"] = PersistErrorResponse
    /\ ~Paid("r1") /\ srefunded["r1"] = COST
    /\ spc["r2"] = "done" /\ skind["r2"] = OrgSubmit
    /\ Paid("r2") /\ NetDebit("r2") = COST /\ sresp["r2"] = "200"

\* ---------------------------------------------------------------------
\* C3 (as claimed): in the handlers that reserve before calling the
\* worker (account-scoped submit, both dub handlers), when the worker call
\* aborts or throws after the reservation succeeded, a refund has been
\* issued by the time the handler has returned its error response.
\* ---------------------------------------------------------------------
C3_TimeoutRefunded ==
    \A r \in Requests :
        (/\ spc[r] = "done"
         /\ skind[r] \in ReserveFirstKinds
         /\ sworker[r] = "throw"
         /\ sdebit[r] = COST)
        => srefundCalls[r] >= 1

\* ---------------------------------------------------------------------
\* C5 (as claimed): whenever no submission request is in flight (and no
\* refund RPC has failed), every submission's Job Record with
\* credits_spent > 0 is backed by a retained reservation of that amount,
\* and every retained reservation is referenced by a Job Record: the net
\* debit of each submission equals the credits_spent of its Job Record.
\* ---------------------------------------------------------------------
C5_LedgerMatchesJobRecords ==
    (/\ \A r \in Requests : spc[r] \in {"idle", "done"}
     /\ \A r \in Requests : RefundsApplied(r))
    => \A r \in Requests :
          skind[r] \in SubmitKinds => NetDebit(r) = jobs[r].spent


C8_AppliedExactlyOnce ==
    (\A r \in VerifyReqs : vupd[r] # "err" /\ (vpc[r] # "idle" => vin[r].sig))
    => /\ vapplyCalls <= 1
       /\ (/\ \A r \in VerifyReqs : vpc[r] \in {"idle", "done"}
           /\ \E r \in VerifyReqs : vpc[r] = "done" /\ vresp[r] = "ok")
          => vapplyCalls = 1

\* ---- bulk request bookkeeping used by the properties ----
BatchItems == 1..bin.n
OkItems == {i \in BatchItems : bitems[i].results > 0 /\ bitems[i].ok}
RecordItems == {i \in BatchItems : bitems[i].rec}
JobItems == {i \in BatchItems : bitems[i].job}
BulkNetDebit == bcredits0 - orgCredits[Org]

\* ---------------------------------------------------------------------
\* C6: rate-limit rejection precedes and excludes any ledger effect.  In
\* bulk/jobs and v1/bulk/submit no charge/reserve call, worker job or Job
\* Record exists unless the one rate-limit call was made before and
\* accepted; a request answered 429 has made no charge/reserve call, left
\* the balance untouched, created no worker job and written no Job Record.
\* ---------------------------------------------------------------------
C6_RateLimitBeforeLedger ==
    bin.kind \in ApiKeyKinds =>
      /\ (breserveCalls > 0 \/ bcharged > 0 \/ \E i \in Items : bitems[i].handed > 0)
            => blim.calls = 1 /\ blim.out = "ok"
      /\ (blim.out = "rej" /\ bpc = "done")
            => /\ bresp = "429"
               /\ breserveCalls = 0
               /\ orgCredits[Org] = bcredits0
               /\ \A i \in Items : bitems[i] = NoItem

C6_Witness ==
    /\ bin.kind = ApiBulkJobs /\ bin.n = 2
    /\ bpc = "done" /\ bresp = "429" /\ blim.out = "rej"
    /\ bcredits0 >= 2 /\ orgCredits[Org] = bcredits0

\* ---------------------------------------------------------------------
\* C9: batch-level reservation in bulk/jobs.  Items are only processed
\* after the upfront charge of the batch size; when the handler has
\* returned 200 the refund RPC has been called once with the number of
\* failed items if there is one (not at all otherwise), the items reported
\* ok are the items with a Job Record (credits_spent = 1), their number is
\* the batch size minus the failed count, and the net debit equals it
\* (given the single refund call, whose result the handler does not
\* inspect, was applied).  When the charge fails (402) no worker job and no
\* Job Record exist and the balance is untouched.
\* ---------------------------------------------------------------------
C9_BatchReservation ==
    bin.kind = ApiBulkJobs =>
      /\ (\E i \in Items : bitems[i].handed > 0) => bcharged = bin.n
      /\ (bpc = "done" /\ bresp = "200") =>
            /\ bcharged = bin.n
            /\ brefund.calls = (IF bfailed > 0 THEN 1 ELSE 0)
            /\ bfailed > 0 => brefund.amount = bfailed
            /\ OkItems = RecordItems
            /\ Cardinality(OkItems) = bin.n - bfailed
            /\ \A i \in BatchItems : bitems[i].handed = 1 /\ bitems[i].results = 1
            /\ brefund.applied = brefund.calls * brefund.amount
                  => BulkNetDebit = Cardinality(OkItems)
      /\ (bpc = "done" /\ bresp = "402") =>
            /\ JobItems = {} /\ RecordItems = {}
            /\ orgCredits[Org] = bcredits0

C9_Witness ==
    /\ bin.kind = ApiBulkJobs /\ bin.n = 2
    /\ bpc = "done" /\ bresp = "200"
    /\ bfailed = 1 /\ brefund.calls = 1 /\ brefund.applied = 1
    /\ Cardinality(RecordItems) = 1 /\ BulkNetDebit = 1

\* ---------------------------------------------------------------------
\* C10 (as claimed): bulk fan-out completeness.  In the pool handlers no
\* item is handed to runOne twice or gets two result entries, and when the
\* handler has returned its 200 response every item of the cleaned batch
\* has been handed to runOne exactly once and has exactly one result entry.
\* ---------------------------------------------------------------------
C10_FanOutComplete ==
    bin.kind \in PoolKinds =>
      /\ \A i \in Items : bitems[i].handed <= 1 /\ bitems[i].results <= 1
      /\ (bpc = "done" /\ bresp = "200") =>
            \A i \in BatchItems : bitems[i].handed = 1 /\ bitems[i].results = 1

\* The same statement for the requests whose concurrency field is a number
\* or absent: it holds on every interleaving of the worker loops.
FanOutCompleteForNumericConcurrency ==
    (bin.kind \in PoolKinds /\ bin.conc.tag # "nan") => C10_FanOutComplete

\* ---- pool bookkeeping ----
ClampProbe == 8

\* worker loops that are inside runOne, and those inside the worker create call
InRunOne == {w \in Workers : wpc[w] \in {"worker", "reserve", "insert", "refund"}}
InWorkerCall == {w \in Workers : wpc[w] = "worker"}

MinOf(a, b) == IF a <= b THEN a ELSE b
MaxOf(a, b) == IF a >= b THEN a ELSE b

\* The pool size the claim names, for a concurrency that is absent or an
\* integer: the requested value (3 by default) clamped to 1..6 and to the
\* batch length.
ClampedPool(c, n) ==
    LET req == IF c.tag = "absent" \/ c.v = 0 THEN DefaultConcurrency ELSE c.v
    IN MinOf(MinOf(MaxOf(req, MinConcurrency), MaxConcurrency), n)

\* ---------------------------------------------------------------------
\* C11: bounded bulk concurrency.  In the pool handlers the number of
\* runOne executions in flight (and so of worker create calls in flight)
\* never exceeds the number of worker loops started; that number is at
\* most 6 and at most the batch length for every concurrency value and
\* batch length, and for an absent or integer concurrency it is the
\* requested value clamped to 1..6 and to the batch length.
\* ---------------------------------------------------------------------
C11_BoundedConcurrency ==
    /\ \A n \in 1..ClampProbe, c \in ConcInputs :
          /\ PoolSize(c, n) <= MaxConcurrency /\ PoolSize(c, n) <= n
          /\ c.tag \in {"absent", "int"} => PoolSize(c, n) = ClampedPool(c, n)
    /\ bin.kind \in PoolKinds /\ bresp # "401" =>
          /\ Cardinality(InRunOne) <= bpool
          /\ Cardinality(InWorkerCall) <= bpool
          /\ bpool <= MaxConcurrency /\ bpool <= bin.n
          /\ bin.conc.tag \in {"absent", "int"} => bpool = ClampedPool(bin.conc, bin.n)

C11_Witness ==
    /\ bin.kind = ApiSubmit /\ bin.n = 2 /\ bin.conc = [tag |-> "int", v |-> MaxConcurrency + 1]
    /\ bpool = 2
    /\ Cardinality(InWorkerCall) = 2

\* ---------------------------------------------------------------------
\* C12 (as claimed): the balance is mutated only via the reservation
\* protocol.  Every step that changes profiles.credits is the UPDATE of a
\* reserve_credits or of a refund_credits call.
\* ---------------------------------------------------------------------
C12_OnlyProtocolMutates ==
    [][credits' # credits =>
          \E s \in Sessions : LReserveUpdate(s) \/ LRefundUpdate(s)]_vars

\* ---------------------------------------------------------------------
\* C13: reserve fails closed.  The UPDATE of reserve_credits(amount) on an
\* account whose balance is less than amount (or that has no row) matches
\* nothing: no row changes and the call raises 'insufficient credits';
\* otherwise it changes only the caller's row, to balance - amount >= 0,
\* and that value is what the call returns.  A call without an
\* authenticated identity raises 'not authenticated' and changes nothing.
\* ---------------------------------------------------------------------
C13_ReserveFailsClosed ==
    [][\A s \in Sessions :
         /\ LReserveUpdate(s) =>
               LET a == luid[s]
                   amt == lamt[s]
               IN IF a \notin DOMAIN credits \/ credits[a] < amt
                    THEN credits' = credits /\ lremaining'[s] = SqlNull
                    ELSE /\ credits[a] - amt >= 0
                         /\ lremaining'[s] = <<credits[a] - amt>>
                         /\ credits' = [credits EXCEPT ![a] = credits[a] - amt]
         /\ (LReturn(s) /\ lop[s] = "reserve") =>
               /\ credits' = credits
               /\ lresult'[s] = IF lremaining[s] = SqlNull
                                  THEN "insufficient credits" ELSE "ok"
         /\ (\E op \in {"reserve", "refund"}, amt \in Amounts : LCall(s, op, NULL, amt)) =>
               /\ credits' = credits
               /\ lresult'[s] = "not authenticated" /\ lpc'[s] = "idle"
      ]_vars

\* A reserve of more than the balance has matched no row: both rows are as
\* they began, and the call is about to raise.
C13_Witness ==
    \E s \in Sessions :
        /\ lpc[s] = "return" /\ lop[s] = "reserve" /\ luid[s] = "u1"
        /\ lremaining[s] = SqlNull
        /\ startCredits["u1"] = 1 /\ lamt[s] = 2 /\ startCredits["u3"] = 2
        /\ credits = startCredits

\* ---- insufficient funds ----
\* The balance a handler's reserve goes against: the account's for the
\* account-scoped submit and for the reserve_credits fallback, else the
\* organization's.
ScopeBalance(k) ==
    IF k \in {AcctSubmit, Dub1} \/ (fnMissing /\ HasFallback(k))
      THEN credits["u1"] ELSE orgCredits["o1"]

\* The handler got as far as its reserve call and the function it calls
\* exists: nothing that precedes the reserve in the handler has failed.
ReserveReached(r) ==
    LET k == skind[r]
    IN /\ fnMissing => (HasFallback(k) \/ FirstReserve(k) = "org")
       /\ k \in ReserveFirstKinds
           \/ (sworker[r] = "ok" /\ (k = OrgSubmit => jobs[r].exists))

\* ---------------------------------------------------------------------
\* C14: insufficient-funds end state.  A submission by a scope whose
\* balance is 0 (and has been since the start: no request has debited
\* anything), in each submit handler, ends with no Job Record with
\* credits_spent > 0, with the balance still 0 and nothing debited, never
\* with a success response, and - whenever the handler reached its reserve
\* call - with 402 'Insufficient credits'.
\* ---------------------------------------------------------------------
C14_InsufficientFundsEndState ==
    \A r \in Requests :
        (/\ spc[r] = "done" /\ skind[r] \in SubmitKinds /\ sresp[r] # "4xx"
         /\ ScopeBalance(skind[r]) = 0
         /\ \A q \in Requests : sdebit[q] = 0 /\ spc[q] \in {"idle", "done"})
        => /\ ~(jobs[r].exists /\ jobs[r].spent > 0)
           /\ sreserved[r] = "none" /\ srefundCalls[r] = 0
           /\ sresp[r] # "200"
           /\ ReserveReached(r) => sresp[r] = "402 Insufficient credits"

C14_Witness ==
    /\ spc["r1"] = "done" /\ skind["r1"] = OrgSubmit /\ ~fnMissing
    /\ orgCredits["o1"] = 0 /\ sdebit["r1"] = 0 /\ sdebit["r2"] = 0
    /\ sworker["r1"] = "ok" /\ jobs["r1"].exists /\ jobs["r1"].spent = 0
    /\ jobs["r1"].status = "error"
    /\ sresp["r1"] = "402 Insufficient credits"
    /\ spc["r2"] = "done" /\ skind["r2"] = AcctSubmit /\ credits["u1"] = 0
    /\ sresp["r2"] = "402 Insufficient credits"

\* ---------------------------------------------------------------------
\* C15 (as claimed): when the reserve of a handler signals insufficient
\* funds, the external worker call of that request (create job / start
\* dub) has not been and is never invoked.
\* ---------------------------------------------------------------------
C15_NoWorkOnInsufficientFunds ==
    \A r \in Requests :
        sresp[r] = "402 Insufficient credits" => sworker[r] = "none"

\* The same statement for the handlers that reserve before the worker
\* call (clip/submit account-scoped and the dub handlers): it holds there.
NoWorkOnInsufficientFundsReserveFirst ==
    \A r \in Requests :
        (skind[r] \in ReserveFirstKinds /\ sresp[r] = "402 Insufficient credits")
           => sworker[r] = "none"

\* ---------------------------------------------------------------------
\* C16: a Job Record write (the insert, or for clip/submit (org) the
\* update of credits_spent) that fails after a successful reservation is
\* followed by exactly one refund attempt of COST in the same request,
\* whose outcome does not change the response: the caller gets the
\* persistence error (500 with the insert error message; for a bulk item
\* that message in the item's result) whether the refund was applied or not.
\* ---------------------------------------------------------------------
C16_PersistFailureRefundedOnce ==
    \A r \in Requests :
        /\ (sresp[r] = PersistErrorResponse /\ sreserved[r] # "none") =>
               /\ spc[r] \in {"refund", "done"}
               /\ srefundCalls[r] = (IF spc[r] = "done" THEN 1 ELSE 0)
               /\ srefunded[r] \in {0, COST * srefundCalls[r]}
               /\ ~Paid(r)
        /\ (spc[r] = "done" /\ sreserved[r] # "none" /\ sworker[r] = "ok"
              /\ skind[r] \in SubmitKinds /\ ~Paid(r))
             => sresp[r] = PersistErrorResponse /\ srefundCalls[r] = 1

\* One request whose refund attempt failed and one whose refund was
\* applied, both answered with the persistence error.
C16_Witness ==
    /\ spc["r1"] = "done" /\ skind["r1"] = StatusSubmit
    /\ sreserved["r1"] = "job" /\ sresp["r1"] = PersistErrorResponse
    /\ srefundCalls["r1"] = 1 /\ srefunded["r1"] = 0
    /\ spc["r2"] = "done" /\ skind["r2"] = BulkItem
    /\ sreserved["r2"] = "job" /\ sresp["r2"] = PersistErrorResponse
    /\ srefundCalls["r2"] = 1 /\ srefunded["r2"] = COST

\* ---------------------------------------------------------------------
\* C17: a reservation is refunded at most once and never when its work
\* succeeded.  Every request issues at most one refund call, only after
\* its own successful reserve and against the scope that reserve debited,
\* and none when it returns success; so the account's and the
\* organization's balance never exceed their starting balance.
\* ---------------------------------------------------------------------
C17_AtMostOneRefund ==
    /\ \A r \in Requests :
          /\ srefundCalls[r] <= 1
          /\ srefundCalls[r] = 1 => sreserved[r] # "none" /\ sdebit[r] = COST
          /\ srefunded[r] <= sdebit[r]
          /\ sresp[r] = "200" => srefundCalls[r] = 0 /\ spc[r] = "done"
    /\ credits["u1"] <= startCredits["u1"]
    /\ orgCredits["o1"] <= bcredits0

\* A request whose work succeeded (reservation kept, no refund) next to one
\* whose reservation was refunded once, the balance back below the start.
C17_Witness ==
    /\ spc["r1"] = "done" /\ skind["r1"] = OrgSubmit /\ sresp["r1"] = "200"
    /\ sdebit["r1"] = COST /\ srefundCalls["r1"] = 0
    /\ spc["r2"] = "done" /\ skind["r2"] = StatusSubmit
    /\ sdebit["r2"] = COST /\ srefundCalls["r2"] = 1 /\ srefunded["r2"] = COST
    /\ ~fnMissing /\ orgCredits["o1"] = bcredits0 - COST

\* ---- rate limiter bookkeeping: blim describes the last call, rl is the
\* row that call left ----
MinuteRolled == blim.before.minute # blim.at
DayRolled == blim.before.day # Day(blim.at)
\* the counts the last call compared with its ceilings
MinuteCountTried == (IF MinuteRolled THEN 0 ELSE blim.before.mcount) + 1
DayCountTried == (IF DayRolled THEN 0 ELSE blim.before.dcount) + blim.weight

\* ---------------------------------------------------------------------
\* C18: rate-limit bucket rollover.  A call that arrives in a minute
\* bucket other than the stored one is never rejected for the minute
\* ceiling, whatever the stored count was (ceiling - 1, or the ceiling
\* itself), and when accepted leaves bucket = current minute, count = 1;
\* a call that arrives on a day other than the stored one, when accepted,
\* leaves day = current day and the day count = its own weight.
\* ---------------------------------------------------------------------
C18_BucketRollover ==
    blim.calls > 0 =>
      /\ MinuteRolled =>
            /\ blim.why # "minute"
            /\ DayCountTried <= blim.daily => blim.out = "ok"
            /\ blim.out = "ok" => rl.minute = blim.at /\ rl.mcount = 1
      /\ DayRolled =>
            /\ (blim.weight <= blim.daily /\ MinuteCountTried <= blim.rpm)
                  => blim.out = "ok"
            /\ blim.out = "ok" => rl.day = Day(blim.at) /\ rl.dcount = blim.weight

\* The stored minute count was ceiling - 1 in bucket T, the day changed
\* too, and the call in bucket T + 1 was accepted with both counts reset.
C18_Witness ==
    /\ blim.calls > 0 /\ blim.out = "ok"
    /\ blim.rpm = 2 /\ blim.before.mcount = blim.rpm - 1
    /\ blim.at = blim.before.minute + 1
    /\ DayRolled /\ blim.before.dcount > 0
    /\ rl.minute = blim.at /\ rl.mcount = 1 /\ rl.dcount = blim.weight

\* ---------------------------------------------------------------------
\* C19: a rejected rate-limit attempt is not charged.  A call is rejected
\* exactly when a post-increment count exceeds its ceiling; the rejection
\* names the minute ceiling when only that one is exceeded and the day
\* ceiling when only that one is; the stored row is then the row the call
\* found, both counts as before.  With rpm = 1 a second call in the minute
\* of an accepted one is rejected, and the call that follows a minute
\* rejection in a later minute is accepted with minute count 1.
\* ---------------------------------------------------------------------
C19_RejectedNotCharged ==
    blim.calls > 0 =>
      /\ blim.out = "rej" <=> (MinuteCountTried > blim.rpm \/ DayCountTried > blim.daily)
      /\ blim.out = "rej" <=> blim.why \in {"minute", "day"}
      /\ blim.why = "minute" => MinuteCountTried > blim.rpm
      /\ blim.why = "day" => DayCountTried > blim.daily
      /\ blim.out = "rej" => rl = blim.before
      /\ (blim.rpm = 1 /\ ~MinuteRolled /\ blim.before.mcount >= 1) => blim.out = "rej"
      /\ (blim.prev = "minute" /\ MinuteRolled /\ DayCountTried <= blim.daily)
            => blim.out = "ok" /\ rl.mcount = 1

\* rpm = 1: the first call was accepted, the second, in the same minute,
\* was rejected for the minute ceiling and left the count at 1, and the
\* third, one minute later, has just been accepted.
C19_Witness ==
    /\ blim.calls = 3 /\ blim.rpm = 1
    /\ blim.prev = "minute"
    /\ blim.before.mcount = 1 /\ blim.at = blim.before.minute + 1
    /\ blim.out = "ok" /\ rl.mcount = 1

\* ---------------------------------------------------------------------
\* C20: one batch-weighted admission call per bulk request.  Once a bulk
\* endpoint has handed an item of the batch to its fan-out, exactly one
\* rate-limit call has been made for the request, it was accepted, and
\* its weight is the number of items of the batch; no request makes more
\* than one.
\* ---------------------------------------------------------------------
FanOutStarted == \E i \in Items : bitems[i].handed > 0

C20_OneWeightedAdmissionPerBatch ==
    /\ blim.calls <= 1
    /\ FanOutStarted =>
          blim.calls = 1 /\ blim.out = "ok" /\ blim.weight = bin.n

\* The same for the one endpoint that passes its batch length (p_jobs).
OneWeightedAdmissionInBulkJobs ==
    (bin.kind = ApiBulkJobs /\ FanOutStarted) =>
        blim.calls = 1 /\ blim.out = "ok" /\ blim.weight = bin.n

\* v1/bulk/submit makes its one call without a batch count.
AdmissionInApiSubmitIsUnweighted ==
    (bin.kind = ApiSubmit /\ FanOutStarted) =>
        blim.calls = 1 /\ blim.out = "ok" /\ blim.weight = 1

\* v1/bulk/jobs makes no rate-limit call.
NoAdmissionInSessionBulk ==
    bin.kind = SessBulk => blim.calls = 0

\* ---------------------------------------------------------------------
\* C21: usage read projection.  Whenever a reader has reported usage from
\* the row the query returned, minuteUsed is the stored minute count if
\* the stored minute bucket is the minute of the instant of the read and 0
\* otherwise (0 also when there is no row), dailyUsed is the stored day
\* count if the stored day is the day of that instant and 0 otherwise;
\* and no read changes the stored row.
\* ---------------------------------------------------------------------
ReadMinute == uread.at \div TicksPerMinute
RowExists == uread.row # FreshRow

UsageProjection ==
    (uread.status = "200" /\ uread.fetch = "ok") =>
       /\ uread.minuteUsed =
             IF RowExists /\ uread.row.minute = ReadMinute THEN uread.row.mcount ELSE 0
       /\ uread.dailyUsed =
             IF RowExists /\ uread.row.day = Day(ReadMinute) THEN uread.row.dcount ELSE 0

ReadLeavesRow ==
    \A reader \in Readers, off \in 0..(TicksPerMinute - 1), fetch \in {"ok", "err"} :
        URead(reader, off, fetch) => rl' = rl

UsageErrorOutcome ==
    uread.fetch = "err" =>
       IF uread.reader = SummaryGet2
         THEN uread.status = "200" /\ uread.minuteUsed = 0 /\ uread.dailyUsed = 0
         ELSE uread.status \in {"400", "throw"}

\* ---------------------------------------------------------------------
\* C22: API key validity.  A request is authenticated by requireApiKey
\* only if, when it arrived, a stored key had the hash of the presented
\* token and was not revoked, and it is authenticated whenever there is
\* such a key and the lookup itself did not fail; a revoked key stays
\* revoked, so no later request presenting it is authenticated; a
\* rejected request is answered 401 having made no rate-limit call and no
\* charge, with the balance as it was and no item handed to the worker.
\* ---------------------------------------------------------------------
KeyValid(tbl, apiKey) ==
    \E k \in DOMAIN tbl : tbl[k].key_hash = Sha256(apiKey) /\ ~tbl[k].revoked

KeyAuthentication ==
    kreq.made =>
      /\ kreq.auth # <<>> => KeyValid(kreq.table, kreq.token)
      /\ (KeyValid(kreq.table, kreq.token) /\ kreq.fault = "ok") => kreq.auth # <<>>
      /\ kreq.auth = <<>> =>
            /\ bpc = "done" /\ bresp = "401"
            /\ blim.calls = 0 /\ breserveCalls = 0 /\ bcharged = 0
            /\ orgCredits[Org] = bcredits0
            /\ \A i \in Items : bitems[i] = NoItem

RevocationIsFinal == \A k \in KeyIds : keys[k].revoked => keys'[k].revoked

C22_ApiKeyValidity == []KeyAuthentication /\ [][RevocationIsFinal]_vars

\* Key 1 was revoked, then its token was presented: the lookup worked,
\* the request was answered 401 and nothing was consumed.
C22_Witness ==
    /\ kreq.made /\ kreq.token = Token1 /\ kreq.fault = "ok"
    /\ kreq.table["k1"].revoked /\ ~kreq.table["k2"].revoked
    /\ kreq.auth = <<>> /\ bresp = "401"
    /\ blim.calls = 0 /\ bcredits0 >= 1 /\ orgCredits[Org] = bcredits0

\* ---------------------------------------------------------------------
\* C23: who may mark an order paid.  A request that has moved the order
\* to paid or applied its entitlement had a matching HMAC signature, the
\* order's own provider order id and a caller who is an admin of the
\* order's organization; a request answered Invalid signature, Order
\* mismatch or Admin required has neither updated the order nor applied
\* anything.
\* ---------------------------------------------------------------------
MarkedOrApplied(r) == vupd[r] # "none" \/ vappliedBy[r]

RejectedVerify(r) ==
    vresp[r] \in {"400 Invalid signature", "400 Order mismatch", "403 Admin required"}

C23_PaidOnlyByVerifiedAdmin ==
    \A r \in VerifyReqs :
        /\ MarkedOrApplied(r) => vin[r].sig /\ vin[r].match /\ vin[r].admin
        /\ RejectedVerify(r) => ~MarkedOrApplied(r)

\* What does hold: signature and order id are always checked, the admin
\* check only where the handler has one; rejected requests change nothing.
PaidOnlyByVerifiedRequest ==
    \A r \in VerifyReqs :
        /\ MarkedOrApplied(r) =>
              /\ vin[r].sig /\ vin[r].match
              /\ RequiresAdmin(vin[r].variant) => vin[r].admin
        /\ RejectedVerify(r) => ~MarkedOrApplied(r)

\* ---------------------------------------------------------------------
\* C24: one credit per dub request.  When the API-key bulk dub handler
\* has answered, the organization's balance is lower than at the start of
\* the request by exactly the number of dubs it started on the worker.
\* ---------------------------------------------------------------------
StartedDubs == Cardinality({i \in Items : bitems[i].job})

C24_OneCreditPerDub ==
    (bin.kind = ApiBulkDub /\ bpc = "done") =>
        bcredits0 - orgCredits[Org] = COST * StartedDubs

\* The bulk dub handler never touches the balance.
BulkDubDebitsNothing == bin.kind = ApiBulkDub => orgCredits[Org] = bcredits0

\* ---------------------------------------------------------------------
\* C25: refund_credits.  For a caller that has a profile row the UPDATE
\* adds the amount to that row, whatever the balance, and the function
\* returns the balance that UPDATE produced; for a caller without a row nothing is
\* updated, no row appears, and the function raises 'profile missing'.
\* ---------------------------------------------------------------------
RefundStep(s) ==
    LRefundUpdate(s) =>
        IF luid[s] \in DOMAIN credits
          THEN /\ credits' = [credits EXCEPT ![luid[s]] = @ + lamt[s]]
               /\ lremaining'[s] = <<credits[luid[s]] + lamt[s]>>
          ELSE /\ credits' = credits
               /\ lremaining'[s] = SqlNull

RefundReturn(s) ==
    (LReturn(s) /\ lop[s] = "refund") =>
        /\ credits' = credits
        /\ IF luid[s] \in DOMAIN credits
             THEN lresult'[s] = "ok" /\ lremaining[s] # SqlNull
             ELSE lresult'[s] = "profile missing"

C25_RefundUnconditional ==
    [][\A s \in Sessions : RefundStep(s) /\ RefundReturn(s)]_vars

\* Both cases have happened: the identity without a row got 'profile
\* missing' and the table still has the one row, on which a refund of 2
\* was applied at the top of the balance range.
C25_Witness ==
    /\ \E s \in Sessions : lresult[s] = "profile missing"
    /\ DOMAIN credits = {"u1"}
    /\ Len(hist["u1"]) >= 1
    /\ LET e == hist["u1"][Len(hist["u1"])]
       IN e.op = "refund" /\ e.amt = 2 /\ e.before = MaxBalance /\ e.after = e.before + 2
    /\ credits["u1"] = MaxBalance + 2

\* ---------------------------------------------------------------------
\* C26: entitlement only for a paid order.  In every reachable state, if
\* some verify request has applied the order's entitlement then the order
\* has status paid.
\* ---------------------------------------------------------------------
C26_AppliedImpliesPaid ==
    \A r \in VerifyReqs : vappliedBy[r] => ostatus = "paid"

\* The handler that looks at the error of its update applies the
\* entitlement only after the update succeeded.
AppliedImpliesPaidWhereChecked ==
    \A r \in VerifyReqs :
        (vappliedBy[r] /\ ChecksUpdateError(vin[r].variant))
            => ostatus = "paid" /\ vupd[r] = "ok"

\* ---------------------------------------------------------------------
\* C27: the concurrency field.  Whatever body.concurrency was, a pool
\* handler that has reached its fan-out for a non-empty batch has started
\* at least one and at most six worker loops, and its 200 response lists
\* as many results as the count it reports.
\* ---------------------------------------------------------------------
FanOutReached == bpc = "pool" \/ (bpc = "done" /\ bresp = "200")
ResultEntries == Cardinality({i \in BatchItems : bitems[i].results > 0})

C27_ConcurrencyAlwaysRuns ==
    (bin.kind \in PoolKinds /\ FanOutReached) =>
        /\ bpool >= MinConcurrency /\ bpool <= MaxConcurrency
        /\ (bpc = "done" /\ bresp = "200") => ResultEntries = bin.n

\* For a concurrency that Number() can parse the loops always run.
NumericConcurrencyAlwaysRuns ==
    (bin.kind \in PoolKinds /\ FanOutReached /\ bin.conc.tag # "nan") =>
        /\ bpool >= MinConcurrency /\ bpool <= MaxConcurrency
        /\ (bpc = "done" /\ bresp = "200") => ResultEntries = bin.n

\* For one that it cannot parse no loop starts and the result list is
\* empty.
NanConcurrencyRunsNothing ==
    (bin.kind \in PoolKinds /\ FanOutReached /\ bin.conc.tag = "nan") =>
        bpool = 0 /\ ResultEntries = 0

\* ---------------------------------------------------------------------
\* C28: reservation variants and their refunds.  In the handlers that
\* fall back from reserve_job_credits to reserve_credits, a request never
\* has more than one reservation applied; it holds a reservation exactly
\* when one of the two was applied, the plain one only when the
\* job-scoped function is missing; and a refund it issues goes through
\* refund_job_credits if the job-scoped reservation was applied and
\* through refund_credits if the plain one was, never the other way.
\* ---------------------------------------------------------------------
C28_RefundMatchesReservation ==
    \A r \in Requests :
        HasFallback(skind[r]) =>
          /\ svia[r].job + svia[r].org <= 1
          /\ sreserved[r] = "job" <=> svia[r].job = 1
          /\ sreserved[r] = "org" <=> svia[r].org = 1
          /\ svia[r].org = 1 => fnMissing
          /\ srefundCalls[r] > 0 <=> svia[r].refund # "none"
          /\ svia[r].refund = "refund_job_credits" => svia[r].job = 1 /\ svia[r].org = 0
          /\ svia[r].refund = "refund_credits" => svia[r].org = 1 /\ svia[r].job = 0

\* The job-scoped function is missing: a request of the organization
\* submit handler reserved through reserve_credits, could not record the
\* charge and was refunded through refund_credits.
C28_Witness ==
    \E r \in Requests :
        /\ skind[r] = OrgSubmit /\ fnMissing
        /\ svia[r] = [job |-> 0, org |-> 1, refund |-> "refund_credits"]
        /\ srefunded[r] = COST /\ spc[r] = "done"

\* ---------------------------------------------------------------------
\* C29: no artifact for an unpaid job.  Whenever the artifact handler has
\* returned a URL for a request's worker job, that job has a Job Record
\* with credits_spent > 0, and the charge was not refunded.
\* ---------------------------------------------------------------------
C29_NoArtifactForUnpaidJob ==
    \A r \in Requests :
        aget[r] = "url" =>
            jobs[r].exists /\ jobs[r].spent > 0 /\ srefunded[r] = 0

\* What the handler does guarantee: a URL only for a job that has a row
\* in user_jobs.
ArtifactOnlyWithRecord ==
    \A r \in Requests : aget[r] = "url" => jobs[r].exists

\* ---------------------------------------------------------------------
\* C30: for every integer amount, zero and negative included, no UPDATE of
\* reserve_credits increases the balance, no UPDATE of refund_credits
\* decreases it, and the balance is never negative.
\* ---------------------------------------------------------------------
ReserveNeverIncreases ==
    \A a \in DOMAIN credits : \A i \in 1..Len(hist[a]) :
        hist[a][i].op = "reserve" => hist[a][i].after <= hist[a][i].before

RefundNeverDecreases ==
    \A a \in DOMAIN credits : \A i \in 1..Len(hist[a]) :
        hist[a][i].op = "refund" => hist[a][i].after >= hist[a][i].before

BalanceNonNegative == \A a \in DOMAIN credits : credits[a] >= 0

C30_AnyAmountKeepsDirection ==
    ReserveNeverIncreases /\ RefundNeverDecreases /\ BalanceNonNegative

\* With amounts of at least 1, as every handler of the repository passes
\* them, the three properties hold (checked under Spec).
PositiveAmountsKeepDirection ==
    /\ \A s \in Sessions : lamt[s] >= 0
    /\ ReserveNeverIncreases /\ RefundNeverDecreases /\ BalanceNonNegative

====
